---- MODULE Spec2Model ----
(***************************************************************************)
(* Model of the transcription pipeline of video-transcriber:               *)
(*   modules/cleaner.py      TranscriptCleaner                             *)
(*   modules/diarizer.py     get_speaker_at_time, assign_speakers_...      *)
(*   modules/transcriber.py  GpuTranscriber, Transcriber (CPU backend)     *)
(*   modules/pipeline.py     TranscribeStage, DiarizeStage, the pipeline   *)
(*                                                                         *)
(* A text is a sequence of characters, each character a one-character      *)
(* string; a character outside ASCII is written by its code point name     *)
(* ("U+4E2D").  Python's half-open 0-based ranges become 1-based closed    *)
(* ranges.                                                                 *)
(***************************************************************************)
EXTENDS Integers, Sequences, FiniteSets, TLC

VARIABLES
    \* ---- TranscriptCleaner (cleaner.py)
    cfg,            \* the cleaner's configuration (its six constructor fields)
    segments,       \* the input list given to clean
    cleaned,        \* result of clean(segments)
    cleaned2,       \* result of clean(clean(segments))
    text_out,       \* result of clean_text on the text of the first segment
    cpc,            \* "start" | "once" | "twice"
    \* ---- assign_speakers_to_transcript (diarizer.py)
    transcript_segments,    \* its first argument
    speaker_segments,       \* its second argument
    merged,                 \* its result
    apc,                    \* "start" | "done"
    \* ---- DiarizeStage (pipeline.py)
    dstage,         \* the stage object: _enabled, _hf_token, _config, _audio_path
    hf_env,         \* os.environ.get("HF_TOKEN")
    ddata,          \* the argument of process
    dout,           \* what process returned
    dtype,          \* the class of the elements of what process returned
    dcall,          \* how the Diarizer was used: whether it was built, the
                    \* token it got, how its diarize call and the merge ended
    dpc,            \* "start" | "returned" | "raised"
    \* ---- TranscribeStage (pipeline.py) and the two backends (transcriber.py)
    tstage,         \* the stage object: _use_gpu, _model_size, _config
    world,          \* the files the stage finds: the whisper executable, the
                    \* model file, the audio path
    tpc,            \* where TranscribeStage.process is
    tmp_wav,        \* the temporary converted WAV file exists on disk
    temp_wav_created,   \* the local of GpuTranscriber.transcribe
    output_lines,   \* the local of GpuTranscriber.transcribe
    pending,        \* the exception on its way through the finally clause
    returncode,     \* process.returncode of the whisper process, once waited for
    gpu_error,      \* the exception the GPU backend raised, None if none
    tlog,           \* constructions, calls, external processes and model
                    \* loads, in the order they happened
    tresult         \* what process returned or raised

cleanVars == <<cfg, segments, cleaned, cleaned2, text_out, cpc>>
assignVars == <<transcript_segments, speaker_segments, merged, apc>>

diarizeVars == <<dstage, hf_env, ddata, dout, dtype, dcall, dpc>>

transcribeVars == <<tstage, world, tpc, tmp_wav, temp_wav_created, output_lines,
                    pending, returncode, gpu_error, tlog, tresult>>

\* TranscriptionPipeline: the object's fields, the position of run and what
\* run has done so far
VARIABLES stages, on_stage_start, on_stage_complete, ppc, run_audio_path,
          pdata, idx, events, dseen, praised, presult, runs
pipelineVars == <<stages, on_stage_start, on_stage_complete, ppc, run_audio_path,
                  pdata, idx, events, dseen, praised, presult, runs>>

\* TranscribeConfig (config.py): the files a configuration is read from, the
\* call that constructs one, its outcome, and the files it consulted
VARIABLES fs, kcall, kresult, consulted, kpc
configVars == <<fs, kcall, kresult, consulted, kpc>>

\* Diarizer.diarize: the tracks of the diarization, the locals of diarize
VARIABLES diarization, speaker_map, speaker_count, speaker_turns, zpc
diarizerVars == <<diarization, speaker_map, speaker_count, speaker_turns, zpc>>

\* format_time: the argument, in tenths of a second, and the string returned
VARIABLES ft_seconds, ft_out, ft_pc
formatVars == <<ft_seconds, ft_out, ft_pc>>

\* transcribe_video, step 5: the merged segments and the class of its elements, the locals of the output loop, the file saved
VARIABLES out_merged, out_type, file_lines, prev_speaker, saved, opc
outputVars == <<out_merged, out_type, file_lines, prev_speaker, saved, opc>>

\* two overlapping GpuTranscriber.transcribe calls: the position and the locals of each, the temporary directory, the accesses of one call to the file of the other
VARIABLES gcalls, tmpdir, foreign
tempVars == <<gcalls, tmpdir, foreign>>

\* _resolve_path: the configured value, the environment, the paths that exist on disk, the path returned
VARIABLES rconfig, renv, on_disk, resolved, rpc
resolveVars == <<rconfig, renv, on_disk, resolved, rpc>>

\* the CPU backend: the instances and their _model, what happened in order, the transcriptions made
VARIABLES backends, history, ncalls
backendVars == <<backends, history, ncalls>>

\* auto_record.main: the local was_in_meeting, what each poll did, where the loop is
VARIABLES was_in_meeting, polls, mpc
recordVars == <<was_in_meeting, polls, mpc>>

vars == <<cleanVars, assignVars, diarizeVars, transcribeVars, pipelineVars, configVars,
          diarizerVars,
          formatVars,
          outputVars,
          tempVars,
          resolveVars,
          backendVars,
          recordVars>>

(***************************************************************************)
(* Bounds                                                                  *)
(***************************************************************************)
MaxSegs == 3        \* longest segment list given to clean
MaxTime == 2        \* latest time of a segment boundary, in seconds
MaxTs == 2          \* longest transcript given to the speaker merge
MaxSp == 2          \* longest list of speaker turns
MaxLines == 2       \* most lines the whisper process prints
MaxStages == 3      \* most stages added to a pipeline
MaxRuns == 2        \* most runs of one pipeline object
MaxTurns == 3       \* most tracks of one diarization
MaxCalls == 4       \* most transcriptions on the CPU backends
MaxPolls == 4       \* most polls of the recording loop

(***************************************************************************)
(* Characters and strings                                                  *)
(***************************************************************************)
UpperLetters == <<"A","B","C","D","E","F","G","H","I","J","K","L","M",
                  "N","O","P","Q","R","S","T","U","V","W","X","Y","Z">>
LowerLetters == <<"a","b","c","d","e","f","g","h","i","j","k","l","m",
                  "n","o","p","q","r","s","t","u","v","w","x","y","z">>

\* str.lower() on one character
LowerChar(c) ==
    IF \E i \in 1..26 : UpperLetters[i] = c
    THEN LowerLetters[CHOOSE i \in 1..26 : UpperLetters[i] = c]
    ELSE c

\* str.lower()
Lower(t) == [i \in 1..Len(t) |-> LowerChar(t[i])]

\* the characters str.strip() removes
IsSpace(c) == c \in {" ", "\t", "\n", "\r", "\f"}

\* str.strip(): drop leading and trailing whitespace
Strip(t) ==
    LET keep == {i \in 1..Len(t) : ~IsSpace(t[i])}
    IN  IF keep = {} THEN <<>>
        ELSE LET lo == CHOOSE i \in keep : \A j \in keep : i <= j
                 hi == CHOOSE i \in keep : \A j \in keep : j <= i
             IN  SubSeq(t, lo, hi)

\* code point of a character; every ASCII character is at most 127
CodePoint(c) ==
    CASE c = "U+4E2D" -> 20013      \* CJK unified ideograph
      [] c = "U+3042" -> 12354      \* hiragana
      [] c = "U+00E9" -> 233        \* Latin small e with acute
      [] OTHER -> 127

\* pattern occurs in t starting at position i
OccursAt(t, pat, i) ==
    /\ i >= 1
    /\ i + Len(pat) - 1 <= Len(t)
    /\ \A k \in 1..Len(pat) : t[i + k - 1] = pat[k]

\* re.search of a literal pattern
Contains(t, pat) == \E i \in 1..(Len(t) + 1) : OccursAt(t, pat, i)

\* re.search of  p1.*p2  ('.' matches anything but a newline)
ContainsThen(t, p1, p2) ==
    \E i \in 1..(Len(t) + 1) : \E j \in 1..(Len(t) + 1) :
        /\ OccursAt(t, p1, i)
        /\ j >= i + Len(p1)
        /\ OccursAt(t, p2, j)
        /\ \A k \in (i + Len(p1))..(j - 1) : t[k] # "\n"

\* regex '$': the end of the string, or just before a final newline
AtEnd(t, pos) == pos = Len(t) + 1 \/ (pos = Len(t) /\ t[pos] = "\n")

(***************************************************************************)
(* cleaner.py: the patterns                                                *)
(***************************************************************************)
\* w = prefix followed by one or more c   (regex  prefix c+)
OneOrMore(w, prefix, c) ==
    /\ Len(w) > Len(prefix)
    /\ SubSeq(w, 1, Len(prefix)) = prefix
    /\ \A i \in (Len(prefix) + 1)..Len(w) : w[i] = c

\* FILLER_PATTERNS[0], the group  (uh+|um+|hmm+|huh|mhm|ah+)
FillerSound(w) ==
    \/ OneOrMore(w, <<"u">>, "h")
    \/ OneOrMore(w, <<"u">>, "m")
    \/ OneOrMore(w, <<"h","m">>, "m")
    \/ w = <<"h","u","h">>
    \/ w = <<"m","h","m">>
    \/ OneOrMore(w, <<"a">>, "h")

\* FILLER_PATTERNS[1], the group  (yeah|yep|yes|okay|ok|right|sure)
FillerWord(w) ==
    w \in { <<"y","e","a","h">>, <<"y","e","p">>, <<"y","e","s">>,
            <<"o","k","a","y">>, <<"o","k">>, <<"r","i","g","h","t">>,
            <<"s","u","r","e">> }

\* the tail  \.?$  matched from position pos on
DotEnd(t, pos) ==
    \/ AtEnd(t, pos)
    \/ (pos <= Len(t) /\ t[pos] = "." /\ AtEnd(t, pos + 1))

PunctChars == {".", ",", "!", "?", ";", ":", "-"}

\* the filler patterns without their anchors: a filler sound or word found
\* anywhere in the text
MatchesFillerAnywhere(t) ==
    LET l == Lower(t)
    IN  \E i \in 1..(Len(l) + 1) : \E j \in (i - 1)..Len(l) :
            \/ FillerSound(SubSeq(l, i, j))
            \/ FillerWord(SubSeq(l, i, j))
            \/ (i <= j /\ \A k \in i..j : l[k] \in PunctChars)
            \/ \A k \in i..j : IsSpace(l[k])

\* any(pattern.match(text) for pattern in self._filler_regex), re.IGNORECASE
MatchesFiller(t) ==
    LET l == Lower(t)
    IN  \/ \E n \in 0..Len(l) : FillerSound(SubSeq(l, 1, n)) /\ DotEnd(l, n + 1)
        \/ \E n \in 0..Len(l) : FillerWord(SubSeq(l, 1, n)) /\ DotEnd(l, n + 1)
        \* ^[.,!?;:\-]+$
        \/ \E n \in 1..Len(t) :
              /\ \A i \in 1..n : t[i] \in PunctChars
              /\ AtEnd(t, n + 1)
        \* ^\s*$
        \/ \E n \in 0..Len(t) :
              /\ \A i \in 1..n : IsSpace(t[i])
              /\ AtEnd(t, n + 1)

\* any(pattern.search(text) for pattern in self._hallucination_regex),
\* re.IGNORECASE
MatchesHallucination(t) ==
    LET l == Lower(t)
    IN  \/ Contains(l, <<"t","h","a","n","k","s"," ","f","o","r"," ","w","a","t","c","h","i","n","g">>)
        \/ Contains(l, <<"t","h","a","n","k"," ","y","o","u"," ","f","o","r"," ","w","a","t","c","h","i","n","g">>)
        \/ ContainsThen(l, <<"s","u","b","s","c","r","i","b","e">>,
                           <<"c","h","a","n","n","e","l">>)
        \/ ContainsThen(l, <<"p","l","e","a","s","e"," ","l","i","k","e">>,
                           <<"c","o","m","m","e","n","t">>)
        \/ Contains(l, <<"d","o","n","'","t"," ","f","o","r","g","e","t"," ","t","o"," ","s","u","b","s","c","r","i","b","e">>)
        \/ Contains(l, <<"s","e","e"," ","y","o","u"," ","i","n"," ","t","h","e"," ","n","e","x","t">>)
        \/ Contains(l, <<"[","m","u","s","i","c","]">>)
        \/ Contains(l, <<"[","a","p","p","l","a","u","s","e","]">>)
        \/ Contains(l, <<"(","m","u","s","i","c",")">>)
        \/ Contains(l, <<"(","a","p","p","l","a","u","s","e",")">>)

\* NON_ENGLISH_PATTERN.search(text):
\* the ranges U+4E00-U+9FFF, U+3040-U+309F, U+30A0-U+30FF, U+AC00-U+D7AF
MatchesNonEnglish(t) ==
    \E i \in 1..Len(t) :
        LET cp == CodePoint(t[i])
        IN  \/ (19968 <= cp /\ cp <= 40959)
            \/ (12352 <= cp /\ cp <= 12447)
            \/ (12448 <= cp /\ cp <= 12543)
            \/ (44032 <= cp /\ cp <= 55215)

(***************************************************************************)
(* difflib.SequenceMatcher(None, a, b).ratio() for strings shorter than    *)
(* 200 characters (no junk, no "popular" elements)                         *)
(***************************************************************************)
RECURSIVE RunLen(_, _, _, _, _, _)
\* length of the common run of a from i and b from j, inside a[..ahi], b[..bhi]
RunLen(a, b, i, j, ahi, bhi) ==
    IF i > ahi \/ j > bhi THEN 0
    ELSE IF a[i] # b[j] THEN 0
    ELSE 1 + RunLen(a, b, i + 1, j + 1, ahi, bhi)

\* find_longest_match: the longest block, the earliest in a, then the
\* earliest in b; <<i, j, k>> with k = 0 when nothing matches
FindLongestMatch(a, b, alo, ahi, blo, bhi) ==
    LET pairs == (alo..ahi) \X (blo..bhi)
        len(p) == RunLen(a, b, p[1], p[2], ahi, bhi)
    IN  IF \A p \in pairs : len(p) = 0 THEN <<alo, blo, 0>>
        ELSE LET best == CHOOSE p \in pairs :
                            \A q \in pairs :
                               \/ len(q) < len(p)
                               \/ (len(q) = len(p) /\ p[1] < q[1])
                               \/ (len(q) = len(p) /\ p[1] = q[1] /\ p[2] <= q[2])
             IN  <<best[1], best[2], len(best)>>

RECURSIVE MatchCount(_, _, _, _, _, _)
\* get_matching_blocks: total size of the blocks found by splitting around
\* the longest match, to its left and to its right
MatchCount(a, b, alo, ahi, blo, bhi) ==
    IF alo > ahi \/ blo > bhi THEN 0
    ELSE LET m == FindLongestMatch(a, b, alo, ahi, blo, bhi)
         IN  IF m[3] = 0 THEN 0
             ELSE m[3]
                  + MatchCount(a, b, alo, m[1] - 1, blo, m[2] - 1)
                  + MatchCount(a, b, m[1] + m[3], ahi, m[2] + m[3], bhi)

\* ratio() < threshold, with ratio = 2.0 * matches / (len(a) + len(b)), and
\* 1.0 when both are empty; the threshold is the fraction thr[1] / thr[2]
RatioBelow(a, b, thr) ==
    LET total == Len(a) + Len(b)
        matches == MatchCount(a, b, 1, Len(a), 1, Len(b))
    IN  IF total = 0 THEN thr[2] < thr[1]
        ELSE 2 * matches * thr[2] < thr[1] * total

(***************************************************************************)
(* cleaner.py: the passes and clean                                        *)
(***************************************************************************)
\* _get_text on a segment object
GetText(seg) == seg.text

\* _filter_non_english
FilterNonEnglish(segs) ==
    SelectSeq(segs, LAMBDA seg : ~MatchesNonEnglish(GetText(seg)))

\* _filter_hallucinations
FilterHallucinations(segs) ==
    SelectSeq(segs, LAMBDA seg : ~MatchesHallucination(Lower(GetText(seg))))

\* _filter_fillers
FilterFillers(segs) ==
    SelectSeq(segs, LAMBDA seg : ~MatchesFiller(Strip(GetText(seg))))

RECURSIVE DuplicatesLoopAgainstPrevious(_, _, _, _)
\* the loop taking every segment, kept or dropped, as the next baseline
DuplicatesLoopAgainstPrevious(rest, result, prev_text, thr) ==
    IF rest = <<>> THEN result
    ELSE LET seg == Head(rest)
             curr_text == Lower(Strip(GetText(seg)))
         IN  IF RatioBelow(prev_text, curr_text, thr)
             THEN DuplicatesLoopAgainstPrevious(Tail(rest), Append(result, seg),
                                                curr_text, thr)
             ELSE DuplicatesLoopAgainstPrevious(Tail(rest), result, curr_text, thr)

RECURSIVE DuplicatesLoop(_, _, _, _)
\* the for loop of _filter_duplicates: result and prev_text are its two
\* loop variables, rest is segments[1:] still to visit
DuplicatesLoop(rest, result, prev_text, thr) ==
    IF rest = <<>> THEN result
    ELSE LET seg == Head(rest)
             curr_text == Lower(Strip(GetText(seg)))
         IN  IF RatioBelow(prev_text, curr_text, thr)
             THEN DuplicatesLoop(Tail(rest), Append(result, seg), curr_text, thr)
             ELSE DuplicatesLoop(Tail(rest), result, prev_text, thr)

\* _filter_duplicates
FilterDuplicates(segs, thr) ==
    IF Len(segs) < 2 THEN segs
    ELSE DuplicatesLoop(Tail(segs), <<segs[1]>>,
                        Lower(Strip(GetText(segs[1]))), thr)

\* _filter_short storing the trimmed text in the segments it keeps
FilterShortStripping(segs, min_segment_length) ==
    LET kept == SelectSeq(segs, LAMBDA seg :
                    Len(Strip(GetText(seg))) >= min_segment_length)
    IN  [i \in 1..Len(kept) |-> [kept[i] EXCEPT !.text = Strip(kept[i].text)]]

\* _filter_short keeping only the texts longer than the minimum
FilterShortAbove(segs, min_segment_length) ==
    SelectSeq(segs, LAMBDA seg : Len(Strip(GetText(seg))) > min_segment_length)

\* _filter_short
FilterShort(segs, min_segment_length) ==
    SelectSeq(segs, LAMBDA seg : Len(Strip(GetText(seg))) >= min_segment_length)

\* clean_text returning the trimmed text
CleanTextTrimmed(c, text) ==
    IF c.remove_non_english /\ MatchesNonEnglish(text) THEN <<>>
    ELSE IF c.remove_hallucinations /\ MatchesHallucination(Lower(text)) THEN <<>>
    ELSE IF c.remove_fillers /\ MatchesFiller(Strip(text)) THEN <<>>
    ELSE IF Len(Strip(text)) < c.min_segment_length THEN <<>>
    ELSE Strip(text)

\* TranscriptCleaner.clean_text, for the cleaner configured by c; the empty
\* string is the empty sequence
CleanText(c, text) ==
    IF c.remove_non_english /\ MatchesNonEnglish(text) THEN <<>>
    ELSE IF c.remove_hallucinations /\ MatchesHallucination(Lower(text)) THEN <<>>
    ELSE IF c.remove_fillers /\ MatchesFiller(Strip(text)) THEN <<>>
    ELSE IF Len(Strip(text)) < c.min_segment_length THEN <<>>
    ELSE text

\* a clean that removes the duplicates before the fillers
CleanDuplicatesFirst(c, segs) ==
    IF segs = <<>> THEN segs
    ELSE LET c1 == IF c.remove_non_english THEN FilterNonEnglish(segs) ELSE segs
             c2 == IF c.remove_hallucinations THEN FilterHallucinations(c1) ELSE c1
             c3 == IF c.remove_duplicates
                   THEN FilterDuplicates(c2, c.similarity_threshold) ELSE c2
             c4 == IF c.remove_fillers THEN FilterFillers(c3) ELSE c3
         IN  FilterShort(c4, c.min_segment_length)

\* TranscriptCleaner.clean, for the cleaner configured by c
Clean(c, segs) ==
    IF segs = <<>> THEN segs
    ELSE LET c1 == IF c.remove_non_english THEN FilterNonEnglish(segs) ELSE segs
             c2 == IF c.remove_hallucinations THEN FilterHallucinations(c1) ELSE c1
             c3 == IF c.remove_fillers THEN FilterFillers(c2) ELSE c2
             c4 == IF c.remove_duplicates
                   THEN FilterDuplicates(c3, c.similarity_threshold) ELSE c3
         IN  FilterShort(c4, c.min_segment_length)

(***************************************************************************)
(* Inputs of the cleaner                                                   *)
(***************************************************************************)
\* "Hello."
TxtHelloDot == <<"H","e","l","l","o",".">>
\* "hello"
TxtHello == <<"h","e","l","l","o">>
\* "ab"
TxtAb == <<"a","b">>
\* " Yeah."
TxtYeah == <<" ","Y","e","a","h",".">>
\* "[Music]"
TxtMusic == <<"[","M","u","s","i","c","]">>
\* an ideograph followed by "abc"
TxtCjk == <<"U+4E2D","a","b","c">>

Texts == {TxtHelloDot, TxtHello, TxtAb, TxtYeah, TxtMusic, TxtCjk}

\* the segment at position i of an input list: a DiarizedSegment
MkSegment(i, t) == [start |-> i - 1, end |-> i, text |-> t, speaker |-> "Speaker"]

SegmentLists ==
    UNION { { [i \in 1..n |-> MkSegment(i, ts[i])] : ts \in [1..n -> Texts] }
            : n \in 0..MaxSegs }

\* TranscriptCleaner.__init__: the six fields; similarity_threshold is a
\* fraction <<numerator, denominator>>
Configs ==
    [ remove_duplicates : BOOLEAN, remove_fillers : BOOLEAN,
      remove_hallucinations : BOOLEAN, remove_non_english : BOOLEAN,
      min_segment_length : {0, 3},
      similarity_threshold : { <<9, 10>>, <<1, 2>> } ]

DefaultConfig ==
    [ remove_duplicates |-> TRUE, remove_fillers |-> TRUE,
      remove_hallucinations |-> TRUE, remove_non_english |-> TRUE,
      min_segment_length |-> 3, similarity_threshold |-> <<9, 10>> ]

(***************************************************************************)
(* The cleaner as a state machine: clean is applied to an input list, and  *)
(* then to its own result                                                  *)
(***************************************************************************)
CleanStart ==
    /\ cfg \in Configs
    /\ segments \in SegmentLists
    /\ cleaned = <<>>
    /\ cleaned2 = <<>>
    /\ text_out = <<>>
    /\ cpc = "start"

\* the cleaner is not in use
CleanUnused ==
    /\ cfg = DefaultConfig
    /\ segments = <<>>
    /\ cleaned = <<>>
    /\ cleaned2 = <<>>
    /\ text_out = <<>>
    /\ cpc = "unused"

\* cleaned = cleaner.clean(segments)
CleanOnce ==
    /\ cpc = "start"
    /\ cleaned' = Clean(cfg, segments)
    /\ cpc' = "once"
    /\ UNCHANGED <<cfg, segments, cleaned2, text_out>>
    /\ UNCHANGED <<assignVars, diarizeVars, transcribeVars, pipelineVars, configVars, diarizerVars,
                   formatVars,
                   outputVars,
                   tempVars,
                   resolveVars,
                   backendVars,
                   recordVars>>

\* cleaned2 = cleaner.clean(cleaned)
CleanTwice ==
    /\ cpc = "once"
    /\ cleaned2' = Clean(cfg, cleaned)
    /\ cpc' = "twice"
    /\ UNCHANGED <<cfg, segments, cleaned, text_out>>
    /\ UNCHANGED <<assignVars, diarizeVars, transcribeVars, pipelineVars, configVars, diarizerVars,
                   formatVars,
                   outputVars,
                   tempVars,
                   resolveVars,
                   backendVars,
                   recordVars>>

CleanNext == CleanOnce \/ CleanTwice

(***************************************************************************)
(* Properties of the cleaner                                               *)
(***************************************************************************)
\* out is obtained from inp by deleting elements: there is a strictly
\* increasing choice of positions of inp that reads out
IsSubsequence(out, inp) ==
    \E f \in [1..Len(out) -> 1..Len(inp)] :
        /\ \A i \in 1..Len(out) : inp[f[i]] = out[i]
        /\ \A i \in 1..Len(out) : \A j \in 1..Len(out) : i < j => f[i] < f[j]

\* C1: for every configuration and every input list, the result of clean is
\* an order-preserving subsequence of its argument: every output segment is
\* an unaltered input segment and the survivors keep their relative order.
C1_CleanIsSubsequence ==
    /\ cpc \in {"once", "twice"} => IsSubsequence(cleaned, segments)
    /\ cpc = "twice" => IsSubsequence(cleaned2, cleaned)

\* clean has dropped a segment from the middle and kept two around it
C1_Witness ==
    /\ cpc = "once"
    /\ Len(segments) = 3
    /\ Len(cleaned) = 2
    /\ cleaned[1] = segments[1]
    /\ cleaned[2] = segments[3]

\* C2: clean is idempotent, clean(clean(x)) = clean(x) for every
\* configuration and every input list x.
C2_CleanIdempotent == cpc = "twice" => cleaned2 = cleaned

(***************************************************************************)
(* The duplicate filter on its own                                         *)
(***************************************************************************)
\* texts that overlap in one character out of two: "ab" and "bc" have the
\* ratio 1/2, "ab" and "cd" the ratio 0
TxtBc == <<"b","c">>
TxtCd == <<"c","d">>
TxtAbPadded == <<" ","A","B"," ">>
DuplicateTexts == {TxtAb, TxtBc, TxtCd, TxtAbPadded}

DuplicateLists ==
    UNION { { [i \in 1..n |-> MkSegment(i, ts[i])] : ts \in [1..n -> DuplicateTexts] }
            : n \in 0..MaxSegs }

DuplicatesStart ==
    /\ cfg \in Configs
    /\ segments \in DuplicateLists
    /\ cleaned = <<>>
    /\ cleaned2 = <<>>
    /\ text_out = <<>>
    /\ cpc = "start"

\* cleaned = cleaner._filter_duplicates(segments)
ApplyFilterDuplicates ==
    /\ cpc = "start"
    /\ cleaned' = FilterDuplicates(segments, cfg.similarity_threshold)
    /\ cpc' = "duplicates filtered"
    /\ UNCHANGED <<cfg, segments, cleaned2, text_out>>
    /\ UNCHANGED <<assignVars, diarizeVars, transcribeVars, pipelineVars, configVars, diarizerVars,
                   formatVars,
                   outputVars,
                   tempVars,
                   resolveVars,
                   backendVars,
                   recordVars>>

DuplicatesNext == ApplyFilterDuplicates

\* the similarity ratio of a and b is at or above the fraction thr
RatioAtOrAbove(a, b, thr) ==
    LET total == Len(a) + Len(b)
        matches == MatchCount(a, b, 1, Len(a), 1, Len(b))
    IN  IF total = 0 THEN thr[1] <= thr[2]
        ELSE 2 * matches * thr[2] >= thr[1] * total

\* the trimmed lower-cased text of the segment at position i
Baseline(segs, i) == Lower(Strip(segs[i].text))

SetMax(S) == CHOOSE x \in S : \A y \in S : y <= x

\* K is the set of the positions kept: the first one, and each later one
\* exactly when its text is not similar to that of the last kept position
\* before it
IsKeptSet(K, segs, thr) ==
    \A i \in 1..Len(segs) :
        i \in K <=>
            \/ i = 1
            \/ /\ K \cap (1..(i - 1)) # {}
               /\ ~RatioAtOrAbove(Baseline(segs, SetMax(K \cap (1..(i - 1)))),
                                  Baseline(segs, i), thr)

RECURSIVE Restrict(_, _, _)
\* the elements of segs at the positions of K from i on, in order
Restrict(segs, K, i) ==
    IF i > Len(segs) THEN <<>>
    ELSE (IF i \in K THEN <<segs[i]>> ELSE <<>>) \o Restrict(segs, K, i + 1)

TxtAbc == <<"a","b","c">>
LengthTexts == {TxtAb, TxtAbc, TxtAbPadded, TxtHello}

LengthLists ==
    UNION { { [i \in 1..n |-> MkSegment(i, ts[i])] : ts \in [1..n -> LengthTexts] }
            : n \in 0..MaxSegs }

LengthStart ==
    /\ cfg \in Configs
    /\ segments \in LengthLists
    /\ cleaned = <<>>
    /\ cleaned2 = <<>>
    /\ text_out = <<>>
    /\ cpc = "start"

LengthNext == CleanOnce

\* the trimmed length of the text of a segment
TrimmedLength(seg) == Len(Strip(seg.text))

\* what the passes before the minimum-length pass leave: clean with the
\* threshold 0, under which that pass keeps every segment
SurvivorsOfOtherPasses(c, segs) == Clean([c EXCEPT !.min_segment_length = 0], segs)

\* C13: every segment of the output of clean has a trimmed text of at least
\* min_segment_length characters, whatever the toggles; of the segments
\* the other enabled passes leave, the minimum-length pass drops exactly
\* those whose trimmed length is strictly below the threshold.
C13_MinimumLength ==
    cpc = "once" =>
        /\ \A i \in 1..Len(cleaned) : TrimmedLength(cleaned[i]) >= cfg.min_segment_length
        /\ cleaned = SelectSeq(SurvivorsOfOtherPasses(cfg, segments),
                               LAMBDA seg : ~(TrimmedLength(seg) < cfg.min_segment_length))

\* with the default configuration, of threshold 3, "ab" is dropped and "abc",
\* of length 3, is kept
C13_Witness ==
    /\ cpc = "once"
    /\ cfg = DefaultConfig
    /\ cfg.min_segment_length = 3
    /\ Len(segments) = 2
    /\ segments[1].text = TxtAb
    /\ segments[2].text = TxtAbc
    /\ SurvivorsOfOtherPasses(cfg, segments) = segments
    /\ cleaned = <<segments[2]>>

\* the five passes in their order; a pass that is switched off is the
\* identity.  The first four are switched by their flags, the minimum-length
\* pass by a threshold of 0
PassNonEnglish(c, segs) == IF c.remove_non_english THEN FilterNonEnglish(segs) ELSE segs
PassHallucinations(c, segs) ==
    IF c.remove_hallucinations THEN FilterHallucinations(segs) ELSE segs
PassFillers(c, segs) == IF c.remove_fillers THEN FilterFillers(segs) ELSE segs
PassDuplicates(c, segs) ==
    IF c.remove_duplicates THEN FilterDuplicates(segs, c.similarity_threshold) ELSE segs
PassShort(c, segs) ==
    IF c.min_segment_length > 0 THEN FilterShort(segs, c.min_segment_length) ELSE segs

\* C25: clean applies its passes in the order non-target-language,
\* hallucination, filler, duplicate, minimum length, each enabled pass once
\* on the output of the one before; each of the five can be switched off
\* without regard to the others, and a pass that is off changes nothing.
C25_PassesInFixedOrder ==
    cpc \in {"once", "twice"} =>
        /\ cleaned = PassShort(cfg, PassDuplicates(cfg, PassFillers(cfg,
                         PassHallucinations(cfg, PassNonEnglish(cfg, segments)))))
        /\ (/\ ~cfg.remove_non_english /\ ~cfg.remove_hallucinations
            /\ ~cfg.remove_fillers /\ ~cfg.remove_duplicates
            /\ cfg.min_segment_length = 0) => cleaned = segments

\* "hello", " Yeah.", "hello" under the defaults: the filler goes first, then
\* the second "hello" is a duplicate of the first; with the duplicates taken
\* out before the fillers both would stay
C25_Witness ==
    /\ cpc = "once"
    /\ cfg = DefaultConfig
    /\ Len(segments) = 3
    /\ segments[1].text = TxtHello /\ segments[2].text = TxtYeah
    /\ segments[3].text = TxtHello
    /\ Len(cleaned) = 1
    /\ Len(FilterFillers(FilterDuplicates(segments, cfg.similarity_threshold))) = 2

(***************************************************************************)
(* The filler filter on its own                                            *)
(***************************************************************************)
TxtYeahBare == <<"Y","e","a","h">>
TxtYeahSentence ==
    <<"Y","e","a","h",","," ","I"," ","a","g","r","e","e"," ","w","i","t",
      "h"," ","t","h","a","t"," ","p","o","i","n","t",".">>
TxtUmDot == <<" ","u","m","."," ">>
TxtUhhh == <<"U","h","h","h">>
TxtDots == <<".",".",".">>
TxtBlank == <<" "," ">>
TxtEmpty == <<>>
TxtYeahBang == <<"Y","e","a","h","!">>
TxtOkOk == <<"o","k"," ","o","k">>
TxtHm == <<"h","m">>
TxtOkayDot == <<"O","K","A","Y",".">>
TxtSurely == <<"s","u","r","e","l","y">>
FillerTexts ==
    { TxtYeahBare, TxtYeahSentence, TxtUmDot, TxtUhhh, TxtDots, TxtBlank, TxtEmpty,
      TxtYeahBang, TxtOkOk, TxtHm, TxtOkayDot, TxtSurely }

FillerLists ==
    UNION { { [i \in 1..n |-> MkSegment(i, ts[i])] : ts \in [1..n -> FillerTexts] }
            : n \in 0..MaxSegs }

FillersStart ==
    /\ cfg = DefaultConfig
    /\ segments \in FillerLists
    /\ cleaned = <<>>
    /\ cleaned2 = <<>>
    /\ text_out = <<>>
    /\ cpc = "start"

\* cleaned = cleaner._filter_fillers(segments)
ApplyFilterFillers ==
    /\ cpc = "start"
    /\ cleaned' = FilterFillers(segments)
    /\ cpc' = "fillers filtered"
    /\ UNCHANGED <<cfg, segments, cleaned2, text_out>>
    /\ UNCHANGED <<assignVars, diarizeVars, transcribeVars, pipelineVars, configVars, diarizerVars,
                   formatVars,
                   outputVars,
                   tempVars,
                   resolveVars,
                   backendVars,
                   recordVars>>

FillersNext == ApplyFilterFillers

\* the filler tokens, those with a repeated last letter up to four letters
FillerTokens ==
    { <<"u","h">>, <<"u","h","h">>, <<"u","h","h","h">>,
      <<"u","m">>, <<"u","m","m">>, <<"u","m","m","m">>,
      <<"h","m","m">>, <<"h","m","m","m">>,
      <<"h","u","h">>, <<"m","h","m">>,
      <<"a","h">>, <<"a","h","h">>, <<"a","h","h","h">>,
      <<"y","e","a","h">>, <<"y","e","p">>, <<"y","e","s">>,
      <<"o","k","a","y">>, <<"o","k">>, <<"r","i","g","h","t">>,
      <<"s","u","r","e">> }

\* the whole of the trimmed text t is a filler token, in any case, with or
\* without a closing period; or punctuation only; or empty
IsBareFiller(t) ==
    \/ Lower(t) \in FillerTokens
    \/ (Len(t) > 0 /\ t[Len(t)] = "." /\ Lower(SubSeq(t, 1, Len(t) - 1)) \in FillerTokens)
    \/ (Len(t) > 0 /\ \A i \in 1..Len(t) : t[i] \in {".", ",", "!", "?", ";", ":", "-"})
    \/ t = <<>>

\* C14: the filler filter removes a segment if and only if its entire
\* trimmed text is a bare filler token, punctuation only, or empty; a segment
\* in which a filler token is part of a longer sentence is kept.
C14_FillersWholeTextOnly ==
    cpc = "fillers filtered" =>
        /\ cleaned = SelectSeq(segments, LAMBDA seg : ~IsBareFiller(Strip(seg.text)))
        /\ \A i \in 1..Len(segments) :
              /\ segments[i].text = TxtYeahBare
                    => \A m \in 1..Len(cleaned) : cleaned[m] # segments[i]
              /\ segments[i].text = TxtYeahSentence
                    => \E m \in 1..Len(cleaned) : cleaned[m] = segments[i]

\* "Yeah" is removed and "Yeah, I agree with that point." is kept
C14_Witness ==
    /\ cpc = "fillers filtered"
    /\ Len(segments) = 2
    /\ segments[1].text = TxtYeahBare
    /\ segments[2].text = TxtYeahSentence
    /\ cleaned = <<segments[2]>>

(***************************************************************************)
(* clean_text and clean on one segment                                     *)
(***************************************************************************)
TxtThanks ==
    <<"T","h","a","n","k","s"," ","f","o","r"," ","w","a","t","c","h","i","n","g","!">>

\* every text used so far, and one more hallucination
AllTexts ==
    Texts \cup DuplicateTexts \cup LengthTexts \cup FillerTexts \cup {TxtThanks}

CleanTextStart ==
    /\ cfg \in Configs
    /\ segments \in { <<MkSegment(1, t)>> : t \in AllTexts }
    /\ cleaned = <<>>
    /\ cleaned2 = <<>>
    /\ text_out = <<>>
    /\ cpc = "start"

\* text_out = cleaner.clean_text(segments[0].text)
ApplyCleanText ==
    /\ cpc = "once"
    /\ text_out' = CleanText(cfg, segments[1].text)
    /\ cpc' = "text cleaned"
    /\ UNCHANGED <<cfg, segments, cleaned, cleaned2>>
    /\ UNCHANGED <<assignVars, diarizeVars, transcribeVars, pipelineVars, configVars, diarizerVars,
                   formatVars,
                   outputVars,
                   tempVars,
                   resolveVars,
                   backendVars,
                   recordVars>>

CleanTextNext == CleanOnce \/ ApplyCleanText

\* C15: for every configuration and every string t, clean_text(t) is t
\* unchanged when clean keeps the one-segment list of text t, and the empty
\* string when clean drops the segment; it returns no other value.
C15_CleanTextAgreesWithClean ==
    cpc = "text cleaned" =>
        /\ cleaned \in {segments, <<>>}
        /\ cleaned = segments => text_out = segments[1].text
        /\ cleaned = <<>> => text_out = <<>>
        /\ text_out \in {segments[1].text, <<>>}

\* a text with blanks around it is kept by clean and returned as it is by
\* clean_text
C15_Witness ==
    /\ cpc = "text cleaned"
    /\ segments[1].text = TxtAbPadded
    /\ cleaned = segments
    /\ text_out = TxtAbPadded

(***************************************************************************)
(* diarizer.py: get_speaker_at_time and assign_speakers_to_transcript.     *)
(* Times are counted in half seconds, so that a segment boundary, a whole  *)
(* number of seconds, is an even number and a midpoint is a whole number.  *)
(***************************************************************************)
RECURSIVE GetSpeakerAtTimeHalfOpen(_, _)
\* get_speaker_at_time taking the turn as the half-open interval [start, end)
GetSpeakerAtTimeHalfOpen(segs, timestamp) ==
    IF segs = <<>> THEN "Unknown"
    ELSE IF Head(segs).start <= timestamp /\ timestamp < Head(segs).end
         THEN Head(segs).speaker
         ELSE GetSpeakerAtTimeHalfOpen(Tail(segs), timestamp)

RECURSIVE GetSpeakerAtTime(_, _)
\* get_speaker_at_time
GetSpeakerAtTime(segs, timestamp) ==
    IF segs = <<>> THEN "Unknown"
    ELSE IF Head(segs).start <= timestamp /\ timestamp <= Head(segs).end
         THEN Head(segs).speaker
         ELSE GetSpeakerAtTime(Tail(segs), timestamp)

\* assign_speakers_to_transcript: a list of (speaker, start, end, text)
AssignSpeakersToTranscript(tsegs, ssegs) ==
    [i \in 1..Len(tsegs) |->
        LET ts == tsegs[i]
            midpoint == (ts.start + ts.end) \div 2
            speaker == GetSpeakerAtTime(ssegs, midpoint)
        IN  <<speaker, ts.start, ts.end, ts.text>>]

\* the boundaries 0, 1, .. MaxTime seconds, in half seconds
Times == {2 * k : k \in 0..MaxTime}

\* the text of the transcript segment at position i
TextAt(i) == IF i % 2 = 1 THEN TxtHello ELSE TxtAb

\* TranscriptSegment lists as a backend yields them: start <= end, in time
\* order, not overlapping
TranscriptLists ==
    UNION { { [i \in 1..n |-> [start |-> iv[i][1], end |-> iv[i][2], text |-> TextAt(i)]]
              : iv \in { f \in [1..n -> {p \in Times \X Times : p[1] <= p[2]}] :
                             \A i \in 1..(n - 1) : f[i][2] <= f[i + 1][1] } }
            : n \in 0..MaxTs }

\* the labels Diarizer.diarize gives its turns
SpeakerLabels == {"Speaker 1", "Speaker 2"}

\* SpeakerSegment
SpeakerSegments ==
    {s \in [start : Times, end : Times, speaker : SpeakerLabels] : s.start <= s.end}

\* SpeakerSegment lists
SpeakerLists ==
    UNION { [1..n -> SpeakerSegments] : n \in 0..MaxSp }

AssignStart ==
    /\ transcript_segments \in TranscriptLists
    /\ speaker_segments \in SpeakerLists
    /\ merged = <<>>
    /\ apc = "start"

\* the merge is not in use
AssignUnused ==
    /\ transcript_segments = <<>>
    /\ speaker_segments = <<>>
    /\ merged = <<>>
    /\ apc = "unused"

\* merged = assign_speakers_to_transcript(transcript_segments, speaker_segments)
Assign ==
    /\ apc = "start"
    /\ merged' = AssignSpeakersToTranscript(transcript_segments, speaker_segments)
    /\ apc' = "done"
    /\ UNCHANGED <<transcript_segments, speaker_segments>>
    /\ UNCHANGED <<cleanVars, diarizeVars, transcribeVars, pipelineVars, configVars, diarizerVars,
                   formatVars,
                   outputVars,
                   tempVars,
                   resolveVars,
                   backendVars,
                   recordVars>>

AssignNext == Assign

(***************************************************************************)
(* Properties of the speaker merge                                         *)
(***************************************************************************)
\* turn s contains the midpoint of transcript segment ts (compared doubled)
ContainsMidpoint(s, ts) ==
    2 * s.start <= ts.start + ts.end /\ ts.start + ts.end <= 2 * s.end

\* C6: assign_speakers_to_transcript returns one record per transcript
\* segment, in order, with the same start, end and text; its speaker is the
\* label of the first turn whose closed interval contains the midpoint, and
\* it is "Unknown" exactly when no turn contains the midpoint.
C6_MidpointAssignment ==
    apc = "done" =>
        /\ Len(merged) = Len(transcript_segments)
        /\ \A i \in 1..Len(transcript_segments) :
              LET ts == transcript_segments[i]
                  hits == {j \in 1..Len(speaker_segments) :
                              ContainsMidpoint(speaker_segments[j], ts)}
              IN  /\ merged[i][2] = ts.start
                  /\ merged[i][3] = ts.end
                  /\ merged[i][4] = ts.text
                  /\ (merged[i][1] = "Unknown") <=> (hits = {})
                  /\ \A j \in hits :
                        (\A k \in hits : j <= k) =>
                            merged[i][1] = speaker_segments[j].speaker

\* one segment's midpoint lies in two turns with different speakers and
\* takes the first; the next segment's midpoint lies in no turn
C6_Witness ==
    /\ apc = "done"
    /\ Len(merged) = 2
    /\ Len(speaker_segments) = 2
    /\ speaker_segments[1].speaker # speaker_segments[2].speaker
    /\ speaker_segments[1].start < speaker_segments[1].end
    /\ transcript_segments[1].start < transcript_segments[1].end
    /\ ContainsMidpoint(speaker_segments[1], transcript_segments[1])
    /\ ContainsMidpoint(speaker_segments[2], transcript_segments[1])
    /\ merged[1][1] = speaker_segments[1].speaker
    /\ merged[2][1] = "Unknown"

(***************************************************************************)
(* pipeline.py: DiarizeStage.process                                       *)
(***************************************************************************)
\* Python's None
None == "<None>"

\* truth value of an optional string: None and "" are false
Truthy(v) == v \notin {None, ""}

\* Python's  a or b
Or(a, b) == IF Truthy(a) THEN a ELSE b

\* self._config is None
NoConfig == [present |-> FALSE, huggingface_token |-> None]

\* the Diarizer was not constructed
NoCall == [built |-> FALSE, hf_token |-> None, diarize |-> "not called",
           merge |-> "not called"]

\* the Diarizer was constructed with token tok; how diarize and the merge ended
Call(tok, d, mg) == [built |-> TRUE, hf_token |-> tok, diarize |-> d, merge |-> mg]

\* TranscribeConfig.get_huggingface_token
GetHuggingfaceToken(config, env) == Or(config.huggingface_token, env)

\* a resolution that looks at the environment first
ResolveTokenEnvFirst(stage, env) ==
    IF Truthy(env) THEN env
    ELSE IF Truthy(stage.hf_token) THEN stage.hf_token
    ELSE IF stage.config.present THEN stage.config.huggingface_token
    ELSE None

\* DiarizeStage.process, lines 229-233: the token resolution
ResolveToken(stage, env) ==
    LET t1 == stage.hf_token
        t2 == IF ~Truthy(t1) /\ stage.config.present
              THEN GetHuggingfaceToken(stage.config, env) ELSE t1
    IN  IF ~Truthy(t2) THEN env ELSE t2

\* Diarizer.__init__: the token it keeps, and whether it raises ValueError
DiarizerInit(hf_token, env) ==
    LET tok == Or(hf_token, env)
    IN  [hf_token |-> tok, raises |-> ~Truthy(tok)]

\* the class of the elements of a list: the dataclass DiarizedSegment, with
\* the attributes start, end, text and speaker, or a plain tuple
DiarizedSegmentType == "DiarizedSegment"
TupleType == "tuple"
NoType == "none"

\* the attributes an object of a class has
Attributes(type) ==
    IF type = DiarizedSegmentType THEN {"start", "end", "text", "speaker"} ELSE {}

\* assign_speakers_to_transcript, line 144: results.append((speaker,
\* ts.start, ts.end, ts.text))
AssignSpeakersElementType == TupleType

\* segments_without_speakers returns DiarizedSegment objects
SegmentsWithoutSpeakersElementType == DiarizedSegmentType

\* segments_without_speakers: every segment with the one label "Speaker"
SegmentsWithoutSpeakers(tsegs) ==
    [i \in 1..Len(tsegs) |->
        [start |-> tsegs[i].start, end |-> tsegs[i].end,
         text |-> tsegs[i].text, speaker |-> "Speaker"]]

\* DiarizeStage.process with no try around the Diarizer: its exception
\* leaves the stage
DiarizeStageProcessNoCatch(stage, env, data, outcome) ==
    IF ~stage.enabled
    THEN [status |-> "returned", value |-> SegmentsWithoutSpeakers(data),
                   type |-> SegmentsWithoutSpeakersElementType, call |-> NoCall]
    ELSE LET hf_token == ResolveToken(stage, env)
         IN  IF ~Truthy(hf_token) \/ stage.audio_path = None
             THEN [status |-> "returned", value |-> SegmentsWithoutSpeakers(data),
                   type |-> SegmentsWithoutSpeakersElementType,
                   call |-> NoCall]
             ELSE IF outcome.diarize = "raise" \/ outcome.merge = "raise"
             THEN [status |-> "raised", value |-> <<>>, type |-> NoType,
                   call |-> Call(hf_token, "raise", "raise")]
             ELSE [status |-> "returned",
                   value |-> AssignSpeakersToTranscript(data, outcome.turns),
                   type |-> AssignSpeakersElementType,
                   call |-> Call(hf_token, "ok", "ok")]

\* DiarizeStage.process.  outcome is what the world outside the stage does:
\* outcome.diarize is "raise" (a missing file, a model that fails to load or
\* to run) or "ok" with outcome.turns the turns Diarizer.diarize returns;
\* outcome.merge is "raise" or "ok".
DiarizeStageProcess(stage, env, data, outcome) ==
    IF ~stage.enabled
    THEN [status |-> "returned", value |-> SegmentsWithoutSpeakers(data),
                   type |-> SegmentsWithoutSpeakersElementType, call |-> NoCall]
    ELSE LET hf_token == ResolveToken(stage, env)
         IN  IF ~Truthy(hf_token)
             THEN [status |-> "returned", value |-> SegmentsWithoutSpeakers(data),
                   type |-> SegmentsWithoutSpeakersElementType,
                   call |-> NoCall]
             ELSE IF stage.audio_path = None
             THEN [status |-> "returned", value |-> SegmentsWithoutSpeakers(data),
                   type |-> SegmentsWithoutSpeakersElementType,
                   call |-> NoCall]
             ELSE LET d == DiarizerInit(hf_token, env)
                  IN  \* try: ... except Exception: segments_without_speakers
                      IF d.raises
                      THEN [status |-> "returned",
                            value |-> SegmentsWithoutSpeakers(data),
                   type |-> SegmentsWithoutSpeakersElementType,
                            call |-> Call(d.hf_token, "not called", "not called")]
                      ELSE IF outcome.diarize = "raise"
                      THEN [status |-> "returned",
                            value |-> SegmentsWithoutSpeakers(data),
                   type |-> SegmentsWithoutSpeakersElementType,
                            call |-> Call(d.hf_token, "raise", "not called")]
                      ELSE IF outcome.merge = "raise"
                      THEN [status |-> "returned",
                            value |-> SegmentsWithoutSpeakers(data),
                   type |-> SegmentsWithoutSpeakersElementType,
                            call |-> Call(d.hf_token, "ok", "raise")]
                      ELSE [status |-> "returned",
                            value |-> AssignSpeakersToTranscript(data, outcome.turns),
                   type |-> AssignSpeakersElementType,
                            call |-> Call(d.hf_token, "ok", "ok")]

\* optional token values: unset, empty, set
TokenValues(name) == {None, "", name}

\* the stage objects: DiarizeStage.__init__ and set_audio_path; config is
\* None or a TranscribeConfig, of which the token alone decides what the
\* stage returns
DiarizeStages ==
    [ enabled : BOOLEAN,
      hf_token : TokenValues("hf_stage"),
      config : {NoConfig}
               \cup [present : {TRUE}, huggingface_token : TokenValues("hf_config")],
      audio_path : {None, "meeting.mp4"} ]

\* what Diarizer.diarize and the merge may do; a diarization of at most one
\* turn is enough here, the merge itself is examined under SpecAssign
DiarizeOutcomes ==
    [ diarize : {"raise"}, turns : {<<>>}, merge : {"ok"} ]
    \cup [ diarize : {"ok"}, turns : {sl \in SpeakerLists : Len(sl) <= 1},
           merge : {"ok", "raise"} ]

DiarizeStart ==
    /\ dstage \in DiarizeStages
    /\ hf_env \in TokenValues("hf_env")
    /\ ddata \in TranscriptLists
    /\ dout = <<>>
    /\ dtype = NoType
    /\ dcall = NoCall
    /\ dpc = "start"

\* the stage is not in use
DiarizeUnused ==
    /\ dstage = [enabled |-> TRUE, hf_token |-> None, config |-> NoConfig,
                 audio_path |-> None]
    /\ hf_env = None
    /\ ddata = <<>>
    /\ dout = <<>>
    /\ dtype = NoType
    /\ dcall = NoCall
    /\ dpc = "unused"

\* dout = stage.process(ddata)
DiarizeProcess ==
    /\ dpc = "start"
    /\ \E outcome \in DiarizeOutcomes :
          LET r == DiarizeStageProcess(dstage, hf_env, ddata, outcome)
          IN  /\ dpc' = r.status
              /\ dout' = r.value
              /\ dtype' = r.type
              /\ dcall' = r.call
    /\ UNCHANGED <<dstage, hf_env, ddata>>
    /\ UNCHANGED <<cleanVars, assignVars, transcribeVars, pipelineVars, configVars, diarizerVars,
                   formatVars,
                   outputVars,
                   tempVars,
                   resolveVars,
                   backendVars,
                   recordVars>>

DiarizeNext == DiarizeProcess

(***************************************************************************)
(* Properties of the diarization stage                                     *)
(***************************************************************************)
\* no token anywhere the stage looks: its argument, its configuration, the
\* environment
NoTokenAnywhere ==
    /\ ~Truthy(dstage.hf_token)
    /\ dstage.config.present => ~Truthy(dstage.config.huggingface_token)
    /\ ~Truthy(hf_env)

\* C4: DiarizeStage.process never raises; with no token, with no audio
\* path, or when the Diarizer or the merge raises, it returns the
\* segments_without_speakers output for its input, one record per input
\* segment.
C4_DiarizeNeverAborts ==
    /\ dpc # "raised"
    /\ dpc = "returned" =>
          /\ Len(dout) = Len(ddata)
          /\ ( \/ NoTokenAnywhere
               \/ dstage.audio_path = None
               \/ "raise" \in {dcall.diarize, dcall.merge} )
                => dout = SegmentsWithoutSpeakers(ddata)

\* C11: with diarization disabled process returns one DiarizedSegment per
\* input segment, in input order, with the same start, end and text and the
\* speaker "Speaker"; and whatever process returns, after a full diarization
\* too, is made of objects with the attributes start, end, text and speaker.
C11_SameShapeAsFullRun ==
    dpc = "returned" =>
        /\ ~dstage.enabled =>
              /\ dtype = DiarizedSegmentType
              /\ dout = [i \in 1..Len(ddata) |->
                            [start |-> ddata[i].start, end |-> ddata[i].end,
                             text |-> ddata[i].text, speaker |-> "Speaker"]]
        /\ \A i \in DOMAIN dout :
              {"start", "end", "text", "speaker"} \subseteq Attributes(dtype)

\* the explicitly configured token: the stage's hf_token when set, else the
\* configuration's huggingface_token when set, else none; an empty string
\* counts as not set
ExplicitToken ==
    IF dstage.hf_token \notin {None, ""} THEN dstage.hf_token
    ELSE IF dstage.config.present /\ dstage.config.huggingface_token \notin {None, ""}
    THEN dstage.config.huggingface_token
    ELSE None

\* C18: the token used for diarization is the explicitly configured one when
\* there is one (the stage's hf_token, then the configuration's
\* huggingface_token); the HF_TOKEN environment variable is used only when
\* there is no explicit value; the token is absent, and no Diarizer is
\* built, only when all of them are unset.
C18_ExplicitTokenBeforeEnvironment ==
    (dpc = "returned" /\ dstage.enabled /\ dstage.audio_path # None) =>
        /\ ExplicitToken # None
              => (dcall.built /\ dcall.hf_token = ExplicitToken)
        /\ (ExplicitToken = None /\ hf_env \notin {None, ""})
              => (dcall.built /\ dcall.hf_token = hf_env)
        /\ ~dcall.built
              <=> (ExplicitToken = None /\ hf_env \in {None, ""})

\* the stage has no token of its own, its configuration has one and the
\* environment another: the Diarizer gets the configuration's
C18_Witness ==
    /\ dpc = "returned"
    /\ dstage.enabled
    /\ dstage.hf_token = None
    /\ dstage.config.present
    /\ dstage.config.huggingface_token = "hf_config"
    /\ hf_env = "hf_env"
    /\ dcall.built
    /\ dcall.hf_token = "hf_config"

\* the Diarizer was built and its diarize call raised; the stage returned
\* two records labelled "Speaker"
C4_Witness ==
    /\ dpc = "returned"
    /\ dcall.built
    /\ dcall.diarize = "raise"
    /\ Len(dout) = 2
    /\ \A i \in 1..2 : dout[i].speaker = "Speaker"

(***************************************************************************)
(* transcriber.py: the backends; pipeline.py: TranscribeStage.process      *)
(***************************************************************************)
\* GpuTranscriber.VALID_MODELS, Transcriber.VALID_MODELS
ValidModels == {"tiny", "base", "small", "medium", "large-v3", "turbo"}

\* ALLOWED_EXTENSIONS
AllowedExtensions ==
    { <<".","m","p","4">>, <<".","m","k","v">>, <<".","a","v","i">>,
      <<".","m","o","v">>, <<".","w","e","b","m">>,
      <<".","m","p","3">>, <<".","w","a","v">>, <<".","f","l","a","c">>,
      <<".","m","4","a">>, <<".","o","g","g">>, <<".","a","a","c">> }

\* _validate_audio_path without the check of the extension
ValidateAudioPathAnyType(audio) ==
    IF ~audio.exists THEN "FileNotFoundError"
    ELSE IF ~audio.is_file THEN "ValueError"
    ELSE "ok"

\* _validate_audio_path: "ok", or the exception it raises
ValidateAudioPath(audio) ==
    IF ~audio.exists THEN "FileNotFoundError"
    ELSE IF ~audio.is_file THEN "ValueError"
    ELSE IF Lower(audio.suffix) \notin AllowedExtensions THEN "ValueError"
    ELSE "ok"

\* audio_path.suffix.lower() == ".wav"
IsWav(audio) == Lower(audio.suffix) = <<".","w","a","v">>

\* an availability test that always answers yes
IsGpuAvailableAlways(w) == TRUE

\* is_gpu_available: the resolved whisper executable exists
IsGpuAvailable(w) == w.exe_exists

\* TranscribeStage.process, lines 117-124: the model size
StageModelSize(stage) ==
    LET m1 == stage.model_size
        m2 == IF stage.config.present THEN Or(m1, stage.config.model) ELSE m1
    IN  Or(m2, "large-v3")

\* _parse_output: the timestamped lines become segments, the rest is dropped
ParseOutput(lines) == SelectSeq(lines, LAMBDA l : l = "[ts] text")

NoResult == [status |-> "none", from |-> "none", value |-> <<>>, exc |-> None]
Returned(backend, segs) ==
    [status |-> "returned", from |-> backend, value |-> segs, exc |-> None]
Raised(backend, e) ==
    [status |-> "raised", from |-> backend, value |-> <<>>, exc |-> e]

\* the paths a caller may pass: a missing path, a directory, files of
\* several types
AudioPaths ==
    { [exists |-> FALSE, is_file |-> FALSE, suffix |-> <<".","m","p","4">>],
      [exists |-> TRUE,  is_file |-> FALSE, suffix |-> <<".","m","p","4">>],
      [exists |-> TRUE,  is_file |-> TRUE,  suffix |-> <<".","m","p","4">>],
      [exists |-> TRUE,  is_file |-> TRUE,  suffix |-> <<".","M","P","4">>],
      [exists |-> TRUE,  is_file |-> TRUE,  suffix |-> <<".","w","a","v">>],
      [exists |-> TRUE,  is_file |-> TRUE,  suffix |-> <<".","t","x","t">>] }

\* TranscribeStage.__init__; of the configuration only the model is read
TranscribeStages ==
    [ use_gpu : BOOLEAN,
      model_size : {None, "tiny", "huge"},
      config : { [present |-> FALSE, model |-> None],
                 [present |-> TRUE, model |-> "medium"] } ]

Worlds == [ exe_exists : BOOLEAN, model_exists : BOOLEAN, audio : AudioPaths ]

\* process.returncode: not yet known, or the exit code
NoReturncode == [known |-> FALSE, code |-> 0]
Returncode(code) == [known |-> TRUE, code |-> code]

\* a check that lets every exit code pass
CheckReturncodeIgnored(code) == None

\* lines 259-260: if process.returncode != 0: raise RuntimeError
CheckReturncode(code) == IF code # 0 THEN "RuntimeError" ELSE None

TranscribeStart ==
    /\ tstage \in TranscribeStages
    /\ world \in Worlds
    /\ tpc = "idle"
    /\ tmp_wav = FALSE
    /\ temp_wav_created = FALSE
    /\ output_lines = <<>>
    /\ pending = None
    /\ returncode = NoReturncode
    /\ gpu_error = None
    /\ tlog = <<>>
    /\ tresult = NoResult

\* the stage is not in use
TranscribeUnused ==
    /\ tstage = [use_gpu |-> TRUE, model_size |-> None,
                 config |-> [present |-> FALSE, model |-> None]]
    /\ world = [exe_exists |-> FALSE, model_exists |-> FALSE,
                audio |-> [exists |-> FALSE, is_file |-> FALSE,
                           suffix |-> <<".","m","p","4">>]]
    /\ tpc = "unused"
    /\ tmp_wav = FALSE
    /\ temp_wav_created = FALSE
    /\ output_lines = <<>>
    /\ pending = None
    /\ returncode = NoReturncode
    /\ gpu_error = None
    /\ tlog = <<>>
    /\ tresult = NoResult

\* an exception of the GPU backend leaves TranscribeStage.process
StageLetsThrough(e) ==
    /\ gpu_error' = e
    /\ tpc' = "raised"
    /\ tresult' = Raised("gpu", e)

\* except Exception as e: print the warning, go on to the CPU fallback
StageCatches(e) ==
    /\ gpu_error' = e
    /\ tpc' = "cpu_init"
    /\ tresult' = tresult

\* process, line 137: if self._use_gpu and is_gpu_available(whisper_exe)
StageBegin ==
    /\ tpc = "idle"
    /\ tpc' = IF tstage.use_gpu /\ IsGpuAvailable(world) THEN "gpu_init" ELSE "cpu_init"
    /\ UNCHANGED <<tstage, world, returncode, tmp_wav, temp_wav_created, output_lines, pending,
                   gpu_error, tlog, tresult>>
    /\ UNCHANGED <<cleanVars, assignVars, diarizeVars, pipelineVars, configVars, diarizerVars,
                   formatVars,
                   outputVars,
                   tempVars,
                   resolveVars,
                   backendVars,
                   recordVars>>

\* GpuTranscriber.__init__
GpuInit ==
    /\ tpc = "gpu_init"
    /\ tlog' = Append(tlog, "GpuTranscriber()")
    /\ IF StageModelSize(tstage) \notin ValidModels THEN StageCatches("ValueError")
       ELSE IF ~world.model_exists THEN StageCatches("FileNotFoundError")
       ELSE tpc' = "gpu_validate" /\ UNCHANGED <<gpu_error, tresult>>
    /\ UNCHANGED <<tstage, world, returncode, tmp_wav, temp_wav_created, output_lines, pending>>
    /\ UNCHANGED <<cleanVars, assignVars, diarizeVars, pipelineVars, configVars, diarizerVars,
                   formatVars,
                   outputVars,
                   tempVars,
                   resolveVars,
                   backendVars,
                   recordVars>>

\* GpuTranscriber.transcribe, line 199
GpuValidate ==
    /\ tpc = "gpu_validate"
    /\ tlog' = Append(tlog, "gpu.transcribe")
    /\ IF ValidateAudioPath(world.audio) # "ok"
       THEN StageCatches(ValidateAudioPath(world.audio))
       ELSE tpc' = "gpu_ffcheck" /\ UNCHANGED <<gpu_error, tresult>>
    /\ UNCHANGED <<tstage, world, returncode, tmp_wav, temp_wav_created, output_lines, pending>>
    /\ UNCHANGED <<cleanVars, assignVars, diarizeVars, pipelineVars, configVars, diarizerVars,
                   formatVars,
                   outputVars,
                   tempVars,
                   resolveVars,
                   backendVars,
                   recordVars>>

\* GpuTranscriber.transcribe, lines 202-207: check_ffmpeg runs "ffmpeg
\* -version" unless the source is a WAV file
GpuCheckFfmpeg ==
    /\ tpc = "gpu_ffcheck"
    /\ IF IsWav(world.audio)
       THEN tpc' = "gpu_convert" /\ UNCHANGED <<gpu_error, tresult, tlog>>
       ELSE /\ tlog' = Append(tlog, "ffmpeg -version")
            /\ \E ffmpeg_ok \in BOOLEAN :
                  IF ffmpeg_ok
                  THEN tpc' = "gpu_convert" /\ UNCHANGED <<gpu_error, tresult>>
                  ELSE StageCatches("RuntimeError")
    /\ UNCHANGED <<tstage, world, returncode, tmp_wav, temp_wav_created, output_lines, pending>>
    /\ UNCHANGED <<cleanVars, assignVars, diarizeVars, pipelineVars, configVars, diarizerVars,
                   formatVars,
                   outputVars,
                   tempVars,
                   resolveVars,
                   backendVars,
                   recordVars>>

\* GpuTranscriber.transcribe, lines 210-211, and _convert_to_wav: ffmpeg
\* writes the temporary file; when it exits with an error it may have written
\* none of it or a part of it
GpuConvert ==
    /\ tpc = "gpu_convert"
    /\ IF IsWav(world.audio)
       THEN /\ temp_wav_created' = FALSE
            /\ tpc' = "gpu_popen"
            /\ UNCHANGED <<tmp_wav, gpu_error, tresult, tlog>>
       ELSE /\ tlog' = Append(tlog, "ffmpeg convert")
            /\ \E ffmpeg \in {"ok", "failed", "failed midway"} :
                  IF ffmpeg = "ok"
                  THEN /\ tmp_wav' = TRUE
                       /\ temp_wav_created' = TRUE
                       /\ tpc' = "gpu_popen"
                       /\ UNCHANGED <<gpu_error, tresult>>
                  ELSE /\ tmp_wav' = (tmp_wav \/ ffmpeg = "failed midway")
                       /\ temp_wav_created' = FALSE
                       /\ StageCatches("RuntimeError")
    /\ UNCHANGED <<tstage, world, returncode, output_lines, pending>>
    /\ UNCHANGED <<cleanVars, assignVars, diarizeVars, pipelineVars, configVars, diarizerVars,
                   formatVars,
                   outputVars,
                   tempVars,
                   resolveVars,
                   backendVars,
                   recordVars>>

\* GpuTranscriber.transcribe, lines 237-245: subprocess.Popen of whisper-cli
GpuPopen ==
    /\ tpc = "gpu_popen"
    /\ tlog' = Append(tlog, "whisper-cli")
    /\ output_lines' = <<>>
    /\ \E started \in BOOLEAN :
          IF started
          THEN tpc' = "gpu_stream" /\ pending' = pending
          ELSE tpc' = "gpu_finally" /\ pending' = "OSError"
    /\ UNCHANGED <<tstage, world, returncode, tmp_wav, temp_wav_created, gpu_error, tresult>>
    /\ UNCHANGED <<cleanVars, assignVars, diarizeVars, pipelineVars, configVars, diarizerVars,
                   formatVars,
                   outputVars,
                   tempVars,
                   resolveVars,
                   backendVars,
                   recordVars>>

\* GpuTranscriber.transcribe, lines 247-248: one more line of output
GpuReadLine ==
    /\ tpc = "gpu_stream"
    /\ Len(output_lines) < MaxLines
    /\ \E line \in {"[ts] text", "noise"} : output_lines' = Append(output_lines, line)
    /\ UNCHANGED <<tstage, world, returncode, tpc, tmp_wav, temp_wav_created, pending, gpu_error,
                   tlog, tresult>>
    /\ UNCHANGED <<cleanVars, assignVars, diarizeVars, pipelineVars, configVars, diarizerVars,
                   formatVars,
                   outputVars,
                   tempVars,
                   resolveVars,
                   backendVars,
                   recordVars>>

\* GpuTranscriber.transcribe, line 247: reading the output raises
GpuStreamRaises ==
    /\ tpc = "gpu_stream"
    /\ tpc' = "gpu_finally"
    /\ pending' = "UnicodeDecodeError"
    /\ UNCHANGED <<tstage, world, returncode, tmp_wav, temp_wav_created, output_lines, gpu_error,
                   tlog, tresult>>
    /\ UNCHANGED <<cleanVars, assignVars, diarizeVars, pipelineVars, configVars, diarizerVars,
                   formatVars,
                   outputVars,
                   tempVars,
                   resolveVars,
                   backendVars,
                   recordVars>>

\* GpuTranscriber.transcribe, lines 257-260: end of output, process.wait()
GpuWait ==
    /\ tpc = "gpu_stream"
    /\ tpc' = "gpu_finally"
    /\ \E code \in {0, 1} :
          /\ returncode' = Returncode(code)
          /\ pending' = CheckReturncode(code)
    /\ UNCHANGED <<tstage, world, tmp_wav, temp_wav_created, output_lines, gpu_error,
                   tlog, tresult>>
    /\ UNCHANGED <<cleanVars, assignVars, diarizeVars, pipelineVars, configVars, diarizerVars,
                   formatVars,
                   outputVars,
                   tempVars,
                   resolveVars,
                   backendVars,
                   recordVars>>

\* GpuTranscriber.transcribe, lines 262-269: the segments are parsed and
\* yielded, and the finally clause removes the temporary file; then
\* process, lines 145-152
GpuFinally ==
    /\ tpc = "gpu_finally"
    /\ tmp_wav' = IF temp_wav_created /\ tmp_wav THEN FALSE ELSE tmp_wav
    /\ IF pending # None
       THEN StageCatches(pending)
       ELSE /\ tpc' = "returned"
            /\ tresult' = Returned("gpu", ParseOutput(output_lines))
            /\ UNCHANGED gpu_error
    /\ pending' = None
    /\ UNCHANGED <<tstage, world, returncode, temp_wav_created, output_lines, tlog>>
    /\ UNCHANGED <<cleanVars, assignVars, diarizeVars, pipelineVars, configVars, diarizerVars,
                   formatVars,
                   outputVars,
                   tempVars,
                   resolveVars,
                   backendVars,
                   recordVars>>

\* process, line 158: Transcriber.__init__ (the CPU backend)
CpuInit ==
    /\ tpc = "cpu_init"
    /\ tlog' = Append(tlog, "CpuTranscriber()")
    /\ IF StageModelSize(tstage) \notin ValidModels
       THEN tpc' = "raised" /\ tresult' = Raised("cpu", "ValueError")
       ELSE tpc' = "cpu_validate" /\ tresult' = tresult
    /\ UNCHANGED <<tstage, world, returncode, tmp_wav, temp_wav_created, output_lines, pending,
                   gpu_error>>
    /\ UNCHANGED <<cleanVars, assignVars, diarizeVars, pipelineVars, configVars, diarizerVars,
                   formatVars,
                   outputVars,
                   tempVars,
                   resolveVars,
                   backendVars,
                   recordVars>>

\* Transcriber.transcribe, line 325
CpuValidate ==
    /\ tpc = "cpu_validate"
    /\ tlog' = Append(tlog, "cpu.transcribe")
    /\ IF ValidateAudioPath(world.audio) # "ok"
       THEN tpc' = "raised" /\ tresult' = Raised("cpu", ValidateAudioPath(world.audio))
       ELSE tpc' = "cpu_load" /\ tresult' = tresult
    /\ UNCHANGED <<tstage, world, returncode, tmp_wav, temp_wav_created, output_lines, pending,
                   gpu_error>>
    /\ UNCHANGED <<cleanVars, assignVars, diarizeVars, pipelineVars, configVars, diarizerVars,
                   formatVars,
                   outputVars,
                   tempVars,
                   resolveVars,
                   backendVars,
                   recordVars>>

\* Transcriber._load_model
CpuLoadModel ==
    /\ tpc = "cpu_load"
    /\ tlog' = Append(tlog, "WhisperModel()")
    /\ \E loaded \in BOOLEAN :
          IF loaded
          THEN tpc' = "cpu_run" /\ tresult' = tresult
          ELSE tpc' = "raised" /\ tresult' = Raised("cpu", "ImportError")
    /\ UNCHANGED <<tstage, world, returncode, tmp_wav, temp_wav_created, output_lines, pending,
                   gpu_error>>
    /\ UNCHANGED <<cleanVars, assignVars, diarizeVars, pipelineVars, configVars, diarizerVars,
                   formatVars,
                   outputVars,
                   tempVars,
                   resolveVars,
                   backendVars,
                   recordVars>>

\* Transcriber.transcribe, lines 333-351: the model decodes the file
CpuRun ==
    /\ tpc = "cpu_run"
    /\ tlog' = Append(tlog, "model.transcribe")
    /\ \E decoded \in {"raise", "silence", "speech"} :
          IF decoded = "raise"
          THEN tpc' = "raised" /\ tresult' = Raised("cpu", "RuntimeError")
          ELSE /\ tpc' = "returned"
               /\ tresult' = Returned("cpu", IF decoded = "speech"
                                            THEN <<"[ts] text">> ELSE <<>>)
    /\ UNCHANGED <<tstage, world, returncode, tmp_wav, temp_wav_created, output_lines, pending,
                   gpu_error>>
    /\ UNCHANGED <<cleanVars, assignVars, diarizeVars, pipelineVars, configVars, diarizerVars,
                   formatVars,
                   outputVars,
                   tempVars,
                   resolveVars,
                   backendVars,
                   recordVars>>

TranscribeNext ==
    \/ StageBegin
    \/ GpuInit \/ GpuValidate \/ GpuCheckFfmpeg \/ GpuConvert \/ GpuPopen
    \/ GpuReadLine \/ GpuStreamRaises \/ GpuWait \/ GpuFinally
    \/ CpuInit \/ CpuValidate \/ CpuLoadModel \/ CpuRun

(***************************************************************************)
(* Properties of TranscribeStage and of the backends                       *)
(***************************************************************************)
\* how many times the event e was logged
Count(log, e) == Cardinality({i \in DOMAIN log : log[i] = e})

\* TranscribeStage.process has ended
StageEnded == tpc \in {"returned", "raised"}

\* C3: when use_gpu is set and the GPU prerequisites are satisfied the GPU
\* backend is attempted first; when its construction or its transcription
\* raised, the CPU backend is invoked exactly once and its result is what the
\* stage returns; the stage raises only an exception of the CPU backend, and
\* never the one of the GPU backend.
C3_GpuFallbackToCpu ==
    /\ (tstage.use_gpu /\ IsGpuAvailable(world) /\ tlog # <<>>)
          => tlog[1] = "GpuTranscriber()"
    /\ (gpu_error # None /\ StageEnded)
          => /\ Count(tlog, "CpuTranscriber()") = 1
             /\ Count(tlog, "cpu.transcribe") <= 1
             /\ tresult.from = "cpu"
    /\ (gpu_error # None /\ tpc = "returned")
          => /\ Count(tlog, "cpu.transcribe") = 1
             /\ Count(tlog, "model.transcribe") = 1
    /\ tresult.status = "raised" => tresult.from = "cpu"

\* the GPU transcription raised after whisper-cli was started, and the stage
\* returned what the CPU backend produced
C3_Witness ==
    /\ gpu_error = "RuntimeError"
    /\ Count(tlog, "whisper-cli") = 1
    /\ tpc = "returned"
    /\ tresult = Returned("cpu", <<"[ts] text">>)

\* GpuTranscriber.transcribe was called and has ended
GpuTranscribeEnded ==
    /\ Count(tlog, "gpu.transcribe") = 1
    /\ tpc \notin {"gpu_validate", "gpu_ffcheck", "gpu_convert", "gpu_popen",
                   "gpu_stream", "gpu_finally"}

\* C5: once GpuTranscriber.transcribe on a source that is not a WAV file has
\* ended, the temporary WAV file is not on disk, whichever way the call ended.
C5_TempWavDeleted ==
    (GpuTranscribeEnded /\ ~IsWav(world.audio)) => ~tmp_wav

\* the external work the validation must precede
ExternalWork ==
    {"ffmpeg -version", "ffmpeg convert", "whisper-cli", "WhisperModel()",
     "model.transcribe"}

\* the path does not exist, is not a regular file, or has an extension outside
\* the allow-list
InvalidPath ==
    \/ ~world.audio.exists
    \/ ~world.audio.is_file
    \/ Lower(world.audio.suffix) \notin AllowedExtensions

\* C10: in both backends, when the path does not exist, is not a regular file
\* or has an extension outside the allow-list, transcribe fails, and no
\* external process was started and no model was loaded.
C10_ValidationBeforeWork ==
    InvalidPath =>
        /\ \A i \in DOMAIN tlog : tlog[i] \notin ExternalWork
        /\ tpc \notin {"gpu_ffcheck", "gpu_convert", "gpu_popen", "gpu_stream",
                       "gpu_finally", "cpu_load", "cpu_run", "returned"}

\* a file of a type outside the allow-list was given to the transcribe of both
\* backends, and both failed
C10_Witness ==
    /\ world.audio.exists /\ world.audio.is_file
    /\ Lower(world.audio.suffix) \notin AllowedExtensions
    /\ Count(tlog, "gpu.transcribe") = 1
    /\ Count(tlog, "cpu.transcribe") = 1
    /\ gpu_error = "ValueError"
    /\ tresult = Raised("cpu", "ValueError")

\* the step is in the log of constructions, calls and external processes
Logged(step) == \E i \in 1..Len(tlog) : tlog[i] = step

\* GpuTranscriber.__init__ ended on a model file that is not there
ModelFileMissing ==
    /\ Logged("GpuTranscriber()") /\ tpc # "gpu_init"
    /\ StageModelSize(tstage) \in ValidModels
    /\ ~world.model_exists

\* the GPU backend failed at the converter: ffmpeg was looked for or run,
\* the whisper process was never started
ConverterMissingOrFailed ==
    /\ Logged("ffmpeg -version") /\ ~Logged("whisper-cli")
    /\ gpu_error # None

\* the whisper process was waited for and had exited with a non-zero code,
\* and transcribe has ended
NonZeroExit ==
    /\ returncode.known /\ returncode.code # 0
    /\ tpc \notin {"gpu_stream", "gpu_finally"}

\* C20: the failures of the GPU backend are of the typed kinds: a non-zero
\* exit code of the whisper process is a WhisperError, a missing model file
\* a ModelNotFoundError, a missing or failed converter an
\* AudioConversionError.
C20_GpuFailuresAreTyped ==
    /\ NonZeroExit => gpu_error = "WhisperError"
    /\ ModelFileMissing => gpu_error = "ModelNotFoundError"
    /\ ConverterMissingOrFailed => gpu_error = "AudioConversionError"

\* C28: process never runs both backends to the end: when the GPU backend
\* returns, the CPU backend is neither constructed nor called; when use_gpu
\* is off or the whisper executable is not there, the GPU backend is never
\* constructed and the CPU backend is constructed first and once, and its
\* transcribe is called once.
C28_OneBackendRunsToCompletion ==
    /\ ~(Count(tlog, "model.transcribe") > 0 /\ tresult.from = "gpu")
    /\ (tpc = "returned" /\ tresult.from = "gpu")
          => /\ Count(tlog, "CpuTranscriber()") = 0
             /\ Count(tlog, "cpu.transcribe") = 0
             /\ Count(tlog, "WhisperModel()") = 0
    /\ (~tstage.use_gpu \/ ~world.exe_exists)
          => /\ Count(tlog, "GpuTranscriber()") = 0
             /\ Count(tlog, "gpu.transcribe") = 0
             /\ Count(tlog, "whisper-cli") = 0
             /\ tlog # <<>> => tlog[1] = "CpuTranscriber()"
             /\ Count(tlog, "CpuTranscriber()") <= 1
             /\ Count(tlog, "cpu.transcribe") <= 1
             /\ StageEnded => Count(tlog, "CpuTranscriber()") = 1
             /\ (StageEnded /\ StageModelSize(tstage) \in ValidModels)
                   => Count(tlog, "cpu.transcribe") = 1

\* GPU use is asked for, the whisper executable is not there, and the stage
\* has returned what the CPU backend gave
C28_Witness ==
    /\ tstage.use_gpu
    /\ ~world.exe_exists
    /\ tpc = "returned"
    /\ tresult.from = "cpu"
    /\ tlog = <<"CpuTranscriber()", "cpu.transcribe", "WhisperModel()", "model.transcribe">>

\* C29: GpuTranscriber.transcribe is all-or-nothing: it gives no segment
\* before the whisper process has ended and all its output has been read, and
\* none at all when the exit code is not zero, whatever lines with a
\* timestamp were received.
C29_GpuAllOrNothing ==
    /\ tpc \in {"gpu_popen", "gpu_stream", "gpu_finally"} => tresult = NoResult
    /\ (returncode.known /\ returncode.code # 0) => tresult.from # "gpu"
    /\ tresult.from = "gpu"
          => /\ tresult.status = "returned"
             /\ returncode = Returncode(0)
             /\ tresult.value = ParseOutput(output_lines)

\* the whisper process printed two lines with a timestamp and ended with
\* code 1: the GPU backend gave nothing, the stage went on to the CPU backend
C29_Witness ==
    /\ returncode = Returncode(1)
    /\ output_lines = <<"[ts] text", "[ts] text">>
    /\ gpu_error = "RuntimeError"
    /\ tpc = "returned"
    /\ tresult.from = "cpu"

(***************************************************************************)
(* pipeline.py: TranscriptionPipeline                                      *)
(***************************************************************************)
\* the classes of the stages of pipeline.py; the name property of each
\* returns the word used here
StageKinds == {"Transcribe", "Diarize", "Cleanup"}

\* the paths given to run
RunPaths == {"a.mp4", "b.mp4"}

\* the exceptions a stage or a callback raises
Exceptions == {"ValueError", "RuntimeError"}

\* a stage after construction: DiarizeStage.__init__ sets _audio_path to
\* None, the other classes have no such field
NewStage(kind) == [kind |-> kind, audio_path |-> None]

\* run, lines 438-439, with a guard that keeps a path already set
SetAudioPathIfUnset(stage, path) ==
    IF stage.kind = "Diarize" /\ stage.audio_path = None
    THEN [stage EXCEPT !.audio_path = path]
    ELSE stage

\* run, lines 438-439: if isinstance(stage, DiarizeStage):
\* stage.set_audio_path(audio_path)
InjectAudioPath(stage, path) ==
    IF stage.kind = "Diarize"
    THEN [stage EXCEPT !.audio_path = path]
    ELSE stage

\* a loop that leaves out every second stage
LoopSkips(i, n) ==
    IF i + 1 < n THEN [pc |-> "start", idx |-> i + 2]
    ELSE [pc |-> "returned", idx |-> i]

\* run, line 436: for stage in self._stages, after the stage at position i
\* of n
LoopNext(i, n) ==
    IF i < n THEN [pc |-> "start", idx |-> i + 1]
    ELSE [pc |-> "returned", idx |-> i]

NoRaise == [by |-> "nothing", at |-> 0, exc |-> None]
NoOutcome == [status |-> "none", value |-> <<>>, exc |-> None]

StartEvent(name) == [type |-> "start", name |-> name, data |-> <<>>]
ProcessEvent(name, input) == [type |-> "process", name |-> name, data |-> input]
CompleteEvent(name, output) == [type |-> "complete", name |-> name, data |-> output]

\* what the process of a stage returns: its input with the stage's mark
StageOutput(stage, input) == Append(input, stage.kind)

\* an exception is caught and the loop goes on with the stage's input
SwallowException(e) ==
    /\ presult' = presult
    /\ ppc' = "complete"

\* run has no try statement: an exception raised inside it leaves run
PropagateException(e) ==
    /\ presult' = [status |-> "raised", value |-> <<>>, exc |-> e]
    /\ ppc' = "raised"

PipelineStart ==
    /\ stages = <<>>
    /\ on_stage_start = FALSE
    /\ on_stage_complete = FALSE
    /\ ppc = "idle"
    /\ run_audio_path = None
    /\ pdata = <<>>
    /\ idx = 0
    /\ events = <<>>
    /\ dseen = <<>>
    /\ praised = NoRaise
    /\ presult = NoOutcome
    /\ runs = 0

\* no pipeline is in use
PipelineUnused ==
    /\ stages = <<>>
    /\ on_stage_start = FALSE
    /\ on_stage_complete = FALSE
    /\ ppc = "unused"
    /\ run_audio_path = None
    /\ pdata = <<>>
    /\ idx = 0
    /\ events = <<>>
    /\ dseen = <<>>
    /\ praised = NoRaise
    /\ presult = NoOutcome
    /\ runs = 0

\* no run is in progress
NotRunning == ppc \in {"idle", "returned", "raised"}

\* between two runs: what is recorded of the run that ended is dropped when the
\* owner of the pipeline goes on to configure it
BetweenRuns ==
    /\ NotRunning
    /\ ppc' = "idle"
    /\ run_audio_path' = None
    /\ pdata' = <<>>
    /\ idx' = 0
    /\ events' = <<>>
    /\ dseen' = <<>>
    /\ praised' = NoRaise
    /\ presult' = NoOutcome
    /\ runs' = runs

\* add_stage
AddStage ==
    /\ BetweenRuns
    /\ Len(stages) < MaxStages
    /\ \E kind \in StageKinds : stages' = Append(stages, NewStage(kind))
    /\ UNCHANGED <<on_stage_start, on_stage_complete>>
    /\ UNCHANGED <<cleanVars, assignVars, diarizeVars, transcribeVars, configVars, diarizerVars,
                   formatVars,
                   outputVars,
                   tempVars,
                   resolveVars,
                   backendVars,
                   recordVars>>

\* on_stage_start
OnStageStart ==
    /\ BetweenRuns
    /\ ~on_stage_start
    /\ on_stage_start' = TRUE
    /\ UNCHANGED <<stages, on_stage_complete>>
    /\ UNCHANGED <<cleanVars, assignVars, diarizeVars, transcribeVars, configVars, diarizerVars,
                   formatVars,
                   outputVars,
                   tempVars,
                   resolveVars,
                   backendVars,
                   recordVars>>

\* on_stage_complete
OnStageComplete ==
    /\ BetweenRuns
    /\ ~on_stage_complete
    /\ on_stage_complete' = TRUE
    /\ UNCHANGED <<stages, on_stage_start>>
    /\ UNCHANGED <<cleanVars, assignVars, diarizeVars, transcribeVars, configVars, diarizerVars,
                   formatVars,
                   outputVars,
                   tempVars,
                   resolveVars,
                   backendVars,
                   recordVars>>

\* DiarizeStage.set_audio_path, called by the owner of the stage
SetAudioPath ==
    /\ BetweenRuns
    /\ \E i \in DOMAIN stages, path \in RunPaths :
          /\ stages[i].kind = "Diarize"
          /\ stages[i].audio_path # path
          /\ stages' = [stages EXCEPT ![i].audio_path = path]
    /\ UNCHANGED <<on_stage_start, on_stage_complete>>
    /\ UNCHANGED <<cleanVars, assignVars, diarizeVars, transcribeVars, configVars, diarizerVars,
                   formatVars,
                   outputVars,
                   tempVars,
                   resolveVars,
                   backendVars,
                   recordVars>>

\* run, lines 433-436: the call, up to the first turn of the loop
RunBegin ==
    /\ NotRunning
    /\ runs < MaxRuns
    /\ runs' = runs + 1
    /\ \E path \in RunPaths :
          /\ run_audio_path' = path
          /\ pdata' = <<path>>
          /\ presult' = IF LoopNext(0, Len(stages)).pc = "returned"
                        THEN [status |-> "returned", value |-> <<path>>, exc |-> None]
                        ELSE NoOutcome
    /\ ppc' = LoopNext(0, Len(stages)).pc
    /\ idx' = LoopNext(0, Len(stages)).idx
    /\ events' = <<>>
    /\ dseen' = <<>>
    /\ praised' = NoRaise
    /\ UNCHANGED <<stages, on_stage_start, on_stage_complete>>
    /\ UNCHANGED <<cleanVars, assignVars, diarizeVars, transcribeVars, configVars, diarizerVars,
                   formatVars,
                   outputVars,
                   tempVars,
                   resolveVars,
                   backendVars,
                   recordVars>>

\* run, lines 438-443: the path is given to a diarization stage, then the
\* start callback is called if there is one
RunStageStart ==
    /\ ppc = "start"
    /\ stages' = [stages EXCEPT ![idx] = InjectAudioPath(stages[idx], run_audio_path)]
    /\ IF on_stage_start
       THEN /\ events' = Append(events, StartEvent(stages[idx].kind))
            /\ \/ ppc' = "process" /\ UNCHANGED <<praised, presult>>
               \/ \E e \in Exceptions :
                     /\ praised' = [by |-> "start", at |-> idx, exc |-> e]
                     /\ PropagateException(e)
       ELSE /\ ppc' = "process"
            /\ UNCHANGED <<events, praised, presult>>
    /\ UNCHANGED <<on_stage_start, on_stage_complete, run_audio_path, pdata, idx,
                   dseen, runs>>
    /\ UNCHANGED <<cleanVars, assignVars, diarizeVars, transcribeVars, configVars, diarizerVars,
                   formatVars,
                   outputVars,
                   tempVars,
                   resolveVars,
                   backendVars,
                   recordVars>>

\* run, line 446: data = stage.process(data)
RunStageProcess ==
    /\ ppc = "process"
    /\ events' = Append(events, ProcessEvent(stages[idx].kind, pdata))
    /\ dseen' = IF stages[idx].kind = "Diarize"
                THEN Append(dseen, stages[idx].audio_path) ELSE dseen
    /\ \/ /\ pdata' = StageOutput(stages[idx], pdata)
          /\ ppc' = "complete"
          /\ UNCHANGED <<praised, presult>>
       \/ \E e \in Exceptions :
             /\ praised' = [by |-> "process", at |-> idx, exc |-> e]
             /\ PropagateException(e)
             /\ pdata' = pdata
    /\ UNCHANGED <<stages, on_stage_start, on_stage_complete, run_audio_path, idx, runs>>
    /\ UNCHANGED <<cleanVars, assignVars, diarizeVars, transcribeVars, configVars, diarizerVars,
                   formatVars,
                   outputVars,
                   tempVars,
                   resolveVars,
                   backendVars,
                   recordVars>>

\* run, lines 449-452: the complete callback is called if there is one, then
\* the loop goes to the next stage, or run returns data
RunStageComplete ==
    /\ ppc = "complete"
    /\ LET next == LoopNext(idx, Len(stages))
           goOn == /\ ppc' = next.pc
                   /\ idx' = next.idx
                   /\ presult' = IF next.pc = "returned"
                                 THEN [status |-> "returned", value |-> pdata,
                                       exc |-> None]
                                 ELSE presult
                   /\ praised' = praised
       IN  IF on_stage_complete
           THEN /\ events' = Append(events, CompleteEvent(stages[idx].kind, pdata))
                /\ \/ goOn
                   \/ \E e \in Exceptions :
                         /\ praised' = [by |-> "complete", at |-> idx, exc |-> e]
                         /\ PropagateException(e)
                         /\ idx' = idx
           ELSE goOn /\ events' = events
    /\ UNCHANGED <<stages, on_stage_start, on_stage_complete, run_audio_path, pdata,
                   dseen, runs>>
    /\ UNCHANGED <<cleanVars, assignVars, diarizeVars, transcribeVars, configVars, diarizerVars,
                   formatVars,
                   outputVars,
                   tempVars,
                   resolveVars,
                   backendVars,
                   recordVars>>

PipelineNext ==
    \/ AddStage \/ OnStageStart \/ OnStageComplete \/ SetAudioPath
    \/ RunBegin \/ RunStageStart \/ RunStageProcess \/ RunStageComplete

(***************************************************************************)
(* Properties of TranscriptionPipeline.run                                 *)
(***************************************************************************)
IsPrefix(a, b) == Len(a) <= Len(b) /\ SubSeq(b, 1, Len(a)) = a

\* the events of a run over the stages from position i on, the stage at i
\* being given input: for each stage the start callback, the process and the
\* complete callback with the output, the callbacks only when registered
RECURSIVE ExpectedFrom(_, _)
ExpectedFrom(i, input) ==
    IF i > Len(stages) THEN <<>>
    ELSE LET name == stages[i].kind
             output == Append(input, name)
         IN  (IF on_stage_start THEN <<StartEvent(name)>> ELSE <<>>)
             \o <<ProcessEvent(name, input)>>
             \o (IF on_stage_complete THEN <<CompleteEvent(name, output)>> ELSE <<>>)
             \o ExpectedFrom(i + 1, output)

ExpectedEvents == ExpectedFrom(1, <<run_audio_path>>)

\* the names of the stages whose process was called, in the order of the calls
ProcessedNames ==
    LET calls == SelectSeq(events, LAMBDA e : e.type = "process")
    IN  [i \in DOMAIN calls |-> calls[i].name]

\* C7: run processes every added stage exactly once in the order of addition;
\* for each stage the start callback, the process and the complete callback
\* (with the stage's output) happen in this order, and the complete callback
\* of a stage comes before the start callback of the next.
C7_StagesInOrder ==
    /\ ppc \in {"start", "process", "complete", "returned", "raised"}
          => IsPrefix(events, ExpectedEvents)
    /\ ppc = "returned"
          => /\ events = ExpectedEvents
             /\ ProcessedNames = [i \in DOMAIN stages |-> stages[i].kind]
             /\ presult.status = "returned"
             /\ presult.value = <<run_audio_path>> \o ProcessedNames

\* a run over three stages with both callbacks registered has returned
C7_Witness ==
    /\ ppc = "returned"
    /\ on_stage_start /\ on_stage_complete
    /\ Len(stages) = 3
    /\ Len(events) = 9

\* how many events a stage contributes
EventsPerStage ==
    1 + (IF on_stage_start THEN 1 ELSE 0) + (IF on_stage_complete THEN 1 ELSE 0)

\* the events of a run up to the call of the process of stage k
EventsThroughProcess(k) ==
    SubSeq(ExpectedEvents, 1,
           k * EventsPerStage - (IF on_stage_complete THEN 1 ELSE 0))

\* C8: when the process of stage k raises, run raises the same exception and
\* returns nothing; the last thing that happened is the call of that process:
\* no complete callback of stage k, no later stage, no later callback.
C8_StageExceptionPropagates ==
    praised.by = "process"
        => /\ ppc = "raised"
           /\ presult = [status |-> "raised", value |-> <<>>, exc |-> praised.exc]
           /\ events = EventsThroughProcess(praised.at)
           /\ idx = praised.at

\* the second of three stages raised, both callbacks being registered
C8_Witness ==
    /\ ppc = "raised"
    /\ praised.by = "process" /\ praised.at = 2
    /\ Len(stages) = 3
    /\ on_stage_start /\ on_stage_complete
    /\ presult.exc = "ValueError"

\* C9: whenever run(p) calls the process of a DiarizeStage, the audio path the
\* stage holds is p, in every run; no stage of another class is given a path.
C9_AudioPathOfCurrentRun ==
    /\ \A i \in DOMAIN dseen : dseen[i] = run_audio_path
    /\ (ppc = "process" /\ stages[idx].kind = "Diarize")
          => stages[idx].audio_path = run_audio_path
    /\ \A i \in DOMAIN stages :
          stages[i].kind # "Diarize" => stages[i].audio_path = None

\* in the second run of a pipeline the first of two diarization stages has
\* been processed, the other one still holds another path
C9_Witness ==
    /\ runs = 2
    /\ Len(stages) >= 2
    /\ stages[1].kind = "Diarize" /\ stages[2].kind = "Diarize"
    /\ dseen = <<run_audio_path>>
    /\ stages[2].audio_path \notin {None, run_audio_path}

\* the calls of process in a run without callbacks over the stages from
\* position i on
RECURSIVE ProcessesFrom(_, _)
ProcessesFrom(i, input) ==
    IF i > Len(stages) THEN <<>>
    ELSE <<ProcessEvent(stages[i].kind, input)>>
         \o ProcessesFrom(i + 1, Append(input, stages[i].kind))

\* C23: callbacks are fire-and-forget: whatever a start or complete callback
\* does, raising included, a run in which no stage raises processes the same
\* stages on the same values and returns the same result as a run with no
\* callbacks registered.
C23_CallbacksFireAndForget ==
    (ppc \in {"returned", "raised"} /\ praised.by # "process") =>
        /\ SelectSeq(events, LAMBDA e : e.type = "process")
              = ProcessesFrom(1, <<run_audio_path>>)
        /\ presult = [status |-> "returned",
                      value |-> <<run_audio_path>> \o [i \in DOMAIN stages |-> stages[i].kind],
                      exc |-> None]

(***************************************************************************)
(* config.py: TranscribeConfig                                             *)
(***************************************************************************)
\* the defaults of the dataclass fields
DefaultModel == "large-v3"
DefaultMinSpeakers == 2
DefaultMaxSpeakers == 6

\* a key that a dictionary does not have
Absent == "<absent>"

\* an integer entry of a dictionary: present with a value, or absent
IntEntry(v) == [has |-> TRUE, value |-> v]
NoEntry == [has |-> FALSE, value |-> 0]

\* dict.get(key, default)
GetStr(entry, default) == IF entry = Absent THEN default ELSE entry
GetInt(entry, default) == IF entry.has THEN entry.value ELSE default

\* the fields of a TranscribeConfig the validation reads
ConfigOf(model, min_speakers, max_speakers) ==
    [model |-> model, min_speakers |-> min_speakers, max_speakers |-> max_speakers]

NoConfigValue == ConfigOf(None, 0, 0)

KRaised(e, source) ==
    [status |-> "raised", exc |-> e, config |-> NoConfigValue, source |-> source]
KReturned(config, source) ==
    [status |-> "returned", exc |-> None, config |-> config, source |-> source]
KNothing == [status |-> "none", exc |-> None, config |-> NoConfigValue, source |-> "none"]

\* the constructor with a __post_init__ that does not look at max_speakers
ConstructUncheckedMax(model, min_speakers, max_speakers, source) ==
    IF model \notin ValidModels THEN KRaised("InvalidConfigError", source)
    ELSE IF min_speakers < 1 THEN KRaised("InvalidConfigError", source)
    ELSE KReturned(ConfigOf(model, min_speakers, max_speakers), source)

\* TranscribeConfig(model, ..., min_speakers, max_speakers): the dataclass
\* constructor, which ends with __post_init__
Construct(model, min_speakers, max_speakers, source) ==
    IF model \notin ValidModels THEN KRaised("InvalidConfigError", source)
    ELSE IF min_speakers < 1 THEN KRaised("InvalidConfigError", source)
    ELSE IF max_speakers < min_speakers THEN KRaised("InvalidConfigError", source)
    ELSE KReturned(ConfigOf(model, min_speakers, max_speakers), source)

\* TranscribeConfig.from_dict
FromDict(data, source) ==
    Construct(GetStr(data.model, DefaultModel),
              GetInt(data.min_speakers, DefaultMinSpeakers),
              GetInt(data.max_speakers, DefaultMaxSpeakers), source)

\* TranscribeConfig.from_file; a file is missing, cannot be opened, is not
\* UTF-8 text, is not JSON, or holds a dictionary
FromFile(file, source) ==
    IF file.state = "missing" THEN KRaised("InvalidConfigError", source)
    ELSE IF file.state = "unreadable" THEN KRaised("InvalidConfigError", source)
    ELSE IF file.state = "malformed" THEN KRaised("InvalidConfigError", source)
    ELSE IF file.state = "undecodable" THEN KRaised("UnicodeDecodeError", source)
    ELSE FromDict(file.data, source)

\* path.exists()
Exists(file) == file.state # "missing"

\* load that goes on to the default locations when the explicit file is
\* missing
LoadFallingThrough(config_path, files) ==
    IF Truthy(config_path) /\ Exists(files.explicit)
    THEN [result |-> FromFile(files.explicit, "explicit"), consulted |-> <<"explicit">>]
    ELSE IF Exists(files.cwd)
    THEN [result |-> FromFile(files.cwd, "cwd"), consulted |-> <<"cwd">>]
    ELSE IF Exists(files.script)
    THEN [result |-> FromFile(files.script, "script"), consulted |-> <<"cwd", "script">>]
    ELSE [result |-> Construct(DefaultModel, DefaultMinSpeakers, DefaultMaxSpeakers,
                               "defaults"),
          consulted |-> <<"cwd", "script">>]

\* TranscribeConfig.load: the outcome, and the files looked at, in order
Load(config_path, files) ==
    IF Truthy(config_path)
    THEN [result |-> FromFile(files.explicit, "explicit"), consulted |-> <<"explicit">>]
    ELSE IF Exists(files.cwd)
    THEN [result |-> FromFile(files.cwd, "cwd"), consulted |-> <<"cwd">>]
    ELSE IF Exists(files.script)
    THEN [result |-> FromFile(files.script, "script"), consulted |-> <<"cwd", "script">>]
    ELSE [result |-> Construct(DefaultModel, DefaultMinSpeakers, DefaultMaxSpeakers,
                               "defaults"),
          consulted |-> <<"cwd", "script">>]

\* the dictionaries a caller passes or a file holds
Dicts ==
    [ model : {Absent, "medium", "huge"},
      min_speakers : {NoEntry, IntEntry(0), IntEntry(3)},
      max_speakers : {NoEntry, IntEntry(2)} ]

EmptyDict == [model |-> Absent, min_speakers |-> NoEntry, max_speakers |-> NoEntry]

\* the states of a configuration file
Files ==
    [ state : {"missing", "unreadable", "undecodable", "malformed"}, data : {EmptyDict} ]
    \cup [ state : {"dict"}, data : Dicts ]

\* the states of the files at the default locations
DefaultLocationFiles ==
    { [state |-> "missing", data |-> EmptyDict],
      [state |-> "malformed", data |-> EmptyDict],
      [state |-> "dict", data |-> [EmptyDict EXCEPT !.model = "medium"]],
      [state |-> "dict", data |-> [EmptyDict EXCEPT !.model = "huge"]] }

\* the arguments of a call
KCall(how, data, config_path) == [how |-> how, data |-> data, config_path |-> config_path]

ConfigStart ==
    /\ fs \in [explicit : Files, cwd : DefaultLocationFiles, script : DefaultLocationFiles]
    /\ kcall = KCall("none", EmptyDict, None)
    /\ kresult = KNothing
    /\ consulted = <<>>
    /\ kpc = "start"

\* no configuration is constructed
ConfigUnused ==
    /\ fs = [explicit |-> [state |-> "missing", data |-> EmptyDict],
             cwd |-> [state |-> "missing", data |-> EmptyDict],
             script |-> [state |-> "missing", data |-> EmptyDict]]
    /\ kcall = KCall("none", EmptyDict, None)
    /\ kresult = KNothing
    /\ consulted = <<>>
    /\ kpc = "unused"

\* TranscribeConfig(model=..., min_speakers=..., max_speakers=...)
CallConstructor ==
    /\ kpc = "start"
    /\ \E model \in {"medium", "huge"}, min_speakers \in {0, 1, 3}, max_speakers \in {0, 2} :
          /\ kcall' = KCall("constructor",
                            [model |-> model, min_speakers |-> IntEntry(min_speakers),
                             max_speakers |-> IntEntry(max_speakers)], None)
          /\ kresult' = Construct(model, min_speakers, max_speakers, "arguments")
    /\ consulted' = <<>>
    /\ kpc' = "done"
    /\ UNCHANGED fs
    /\ UNCHANGED <<cleanVars, assignVars, diarizeVars, transcribeVars, pipelineVars,
                   diarizerVars,
                   formatVars,
                   outputVars,
                   tempVars,
                   resolveVars,
                   backendVars,
                   recordVars>>

\* TranscribeConfig.from_dict(data)
CallFromDict ==
    /\ kpc = "start"
    /\ \E data \in Dicts :
          /\ kcall' = KCall("from_dict", data, None)
          /\ kresult' = FromDict(data, "arguments")
    /\ consulted' = <<>>
    /\ kpc' = "done"
    /\ UNCHANGED fs
    /\ UNCHANGED <<cleanVars, assignVars, diarizeVars, transcribeVars, pipelineVars,
                   diarizerVars,
                   formatVars,
                   outputVars,
                   tempVars,
                   resolveVars,
                   backendVars,
                   recordVars>>

\* TranscribeConfig.from_file(path)
CallFromFile ==
    /\ kpc = "start"
    /\ kcall' = KCall("from_file", EmptyDict, "my.json")
    /\ kresult' = FromFile(fs.explicit, "explicit")
    /\ consulted' = <<"explicit">>
    /\ kpc' = "done"
    /\ UNCHANGED fs
    /\ UNCHANGED <<cleanVars, assignVars, diarizeVars, transcribeVars, pipelineVars,
                   diarizerVars,
                   formatVars,
                   outputVars,
                   tempVars,
                   resolveVars,
                   backendVars,
                   recordVars>>

\* TranscribeConfig.load(config_path)
CallLoad ==
    /\ kpc = "start"
    /\ \E config_path \in {None, "", "my.json"} :
          /\ kcall' = KCall("load", EmptyDict, config_path)
          /\ kresult' = Load(config_path, fs).result
          /\ consulted' = Load(config_path, fs).consulted
    /\ kpc' = "done"
    /\ UNCHANGED fs
    /\ UNCHANGED <<cleanVars, assignVars, diarizeVars, transcribeVars, pipelineVars,
                   diarizerVars,
                   formatVars,
                   outputVars,
                   tempVars,
                   resolveVars,
                   backendVars,
                   recordVars>>

ConfigNext == CallConstructor \/ CallFromDict \/ CallFromFile \/ CallLoad

(***************************************************************************)
(* Properties of TranscribeConfig                                          *)
(***************************************************************************)
\* the file a source name stands for
FileOf(source) ==
    IF source = "explicit" THEN fs.explicit
    ELSE IF source = "cwd" THEN fs.cwd
    ELSE fs.script

\* whether the configuration was asked for with a dictionary of values, and
\* that dictionary: the arguments, or what the file used holds; the built-in
\* defaults are the empty dictionary
HasRequest ==
    \/ kresult.source \in {"arguments", "defaults"}
    \/ (kresult.source \in {"explicit", "cwd", "script"}
        /\ FileOf(kresult.source).state = "dict")

Request ==
    IF kresult.source = "arguments" THEN kcall.data
    ELSE IF kresult.source = "defaults" THEN EmptyDict
    ELSE FileOf(kresult.source).data

\* the values asked for, a missing one being the default
RequestedModel == IF Request.model = Absent THEN "large-v3" ELSE Request.model
RequestedMin == IF Request.min_speakers.has THEN Request.min_speakers.value ELSE 2
RequestedMax == IF Request.max_speakers.has THEN Request.max_speakers.value ELSE 6

OutOfBounds(model, min_speakers, max_speakers) ==
    \/ model \notin {"tiny", "base", "small", "medium", "large-v3", "turbo"}
    \/ min_speakers < 1
    \/ max_speakers < min_speakers

\* C16: the constructor, from_dict, from_file and load fail with
\* InvalidConfigError when the model is outside the six names, min_speakers
\* is below 1 or max_speakers is below min_speakers; a TranscribeConfig that
\* is returned never violates these bounds.
C16_InvalidConfigRejected ==
    kpc = "done" =>
        /\ (HasRequest /\ OutOfBounds(RequestedModel, RequestedMin, RequestedMax))
              => /\ kresult.status = "raised"
                 /\ kresult.exc = "InvalidConfigError"
        /\ kresult.status = "returned"
              => /\ ~OutOfBounds(kresult.config.model, kresult.config.min_speakers,
                                 kresult.config.max_speakers)
                 /\ kresult.config = ConfigOf(RequestedModel, RequestedMin, RequestedMax)

\* from_file read a dictionary whose min_speakers 3 is above its max_speakers
\* 2, and raised
C16_Witness ==
    /\ kpc = "done"
    /\ kcall.how = "from_file"
    /\ fs.explicit.state = "dict"
    /\ RequestedModel = "medium" /\ RequestedMin = 3 /\ RequestedMax = 2
    /\ kresult.status = "raised"
    /\ kresult.exc = "InvalidConfigError"

\* the source load is to use: the explicit path when given, else the first
\* default location that exists, else the built-in defaults
ExpectedSource ==
    IF Truthy(kcall.config_path) THEN "explicit"
    ELSE IF fs.cwd.state # "missing" THEN "cwd"
    ELSE IF fs.script.state # "missing" THEN "script"
    ELSE "defaults"

RawLabels == {"SPEAKER_00", "SPEAKER_01", "SPEAKER_02"}

\* the times of a turn
TurnTimes == {<<0, 1>>, <<1, 2>>}

\* the tracks itertracks yields, at most MaxTurns of them
Tracks == [start : {0, 1}, end : {1, 2}, speaker : RawLabels]
Diarizations ==
    UNION { [1..n -> {t \in Tracks : <<t.start, t.end>> \in TurnTimes}] : n \in 0..MaxTurns }

\* f"Speaker {speaker_count}"
SpeakerName(n) == "Speaker " \o ToString(n)

\* speaker in speaker_map, speaker_map[speaker]; the map is a set of entries
InMap(map, speaker) == \E e \in map : e.raw = speaker
Lookup(map, speaker) == (CHOOSE e \in map : e.raw = speaker).name

\* a relabelling that numbers every turn anew
RelabelEveryTurn(map, count, speaker) ==
    [speaker_map |-> {e \in map : e.raw # speaker}
                     \cup {[raw |-> speaker, name |-> SpeakerName(count + 1)]},
     speaker_count |-> count + 1]

\* lines 90-92: a label not seen before gets the next number
Relabel(map, count, speaker) ==
    IF ~InMap(map, speaker)
    THEN [speaker_map |-> map \cup {[raw |-> speaker, name |-> SpeakerName(count + 1)]},
          speaker_count |-> count + 1]
    ELSE [speaker_map |-> map, speaker_count |-> count]

DiarizerStart ==
    /\ diarization \in Diarizations
    /\ speaker_map = {}
    /\ speaker_count = 0
    /\ speaker_turns = <<>>
    /\ zpc = "start"

\* diarize is not called
DiarizerUnused ==
    /\ diarization = <<>>
    /\ speaker_map = {}
    /\ speaker_count = 0
    /\ speaker_turns = <<>>
    /\ zpc = "unused"

\* lines 70-72: the audio file does not exist
DiarizeFileNotFound ==
    /\ zpc = "start"
    /\ zpc' = "raised FileNotFoundError"
    /\ UNCHANGED <<diarization, speaker_map, speaker_count, speaker_turns>>
    /\ UNCHANGED <<cleanVars, assignVars, diarizeVars, transcribeVars, pipelineVars,
                   configVars,
                   formatVars,
                   outputVars,
                   tempVars,
                   resolveVars,
                   backendVars,
                   recordVars>>

\* lines 74-87: the pipeline ran and gave the diarization
DiarizeRunPipeline ==
    /\ zpc = "start"
    /\ zpc' = "loop"
    /\ speaker_map' = {}
    /\ speaker_count' = 0
    /\ speaker_turns' = <<>>
    /\ UNCHANGED diarization
    /\ UNCHANGED <<cleanVars, assignVars, diarizeVars, transcribeVars, pipelineVars,
                   configVars,
                   formatVars,
                   outputVars,
                   tempVars,
                   resolveVars,
                   backendVars,
                   recordVars>>

\* lines 89-98: one iteration of the loop over the tracks
DiarizeTrack ==
    /\ zpc = "loop"
    /\ Len(speaker_turns) < Len(diarization)
    /\ LET track == diarization[Len(speaker_turns) + 1]
           r == Relabel(speaker_map, speaker_count, track.speaker)
       IN  /\ speaker_map' = r.speaker_map
           /\ speaker_count' = r.speaker_count
           /\ speaker_turns' = Append(speaker_turns,
                                      [start |-> track.start, end |-> track.end,
                                       speaker |-> Lookup(r.speaker_map, track.speaker)])
    /\ UNCHANGED <<diarization, zpc>>
    /\ UNCHANGED <<cleanVars, assignVars, diarizeVars, transcribeVars, pipelineVars,
                   configVars,
                   formatVars,
                   outputVars,
                   tempVars,
                   resolveVars,
                   backendVars,
                   recordVars>>

\* lines 100-101: return segments
DiarizeReturn ==
    /\ zpc = "loop"
    /\ Len(speaker_turns) = Len(diarization)
    /\ zpc' = "returned"
    /\ UNCHANGED <<diarization, speaker_map, speaker_count, speaker_turns>>
    /\ UNCHANGED <<cleanVars, assignVars, diarizeVars, transcribeVars, pipelineVars,
                   configVars,
                   formatVars,
                   outputVars,
                   tempVars,
                   resolveVars,
                   backendVars,
                   recordVars>>

DiarizerNext ==
    DiarizeFileNotFound \/ DiarizeRunPipeline \/ DiarizeTrack \/ DiarizeReturn

(***************************************************************************)
(* Properties of Diarizer.diarize                                          *)
(***************************************************************************)
\* the raw labels of the first n tracks
LabelsUpTo(n) == {diarization[j].speaker : j \in 1..n}

\* the position of the first track with the raw label of track i
FirstOccurrence(i) ==
    CHOOSE j \in 1..i :
        /\ diarization[j].speaker = diarization[i].speaker
        /\ \A k \in 1..(j - 1) : diarization[k].speaker # diarization[i].speaker

\* the rank of a track's raw label in order of first occurrence
Rank(i) == Cardinality(LabelsUpTo(FirstOccurrence(i)))

\* C19: diarize relabels the raw speaker labels to "Speaker N", N being the
\* rank of the label's first occurrence, in one forward pass: the first
\* label met is Speaker 1, the next new one Speaker 2; the labels of the
\* result are exactly Speaker 1 .. Speaker K for K distinct speakers, and
\* the turns keep the order and the times of the diarization.
C19_SpeakersNumberedByFirstOccurrence ==
    /\ zpc \in {"loop", "returned"} =>
          /\ Len(speaker_turns) <= Len(diarization)
          /\ \A i \in 1..Len(speaker_turns) :
                /\ speaker_turns[i].start = diarization[i].start
                /\ speaker_turns[i].end = diarization[i].end
                /\ speaker_turns[i].speaker = SpeakerName(Rank(i))
          /\ speaker_count = Cardinality(LabelsUpTo(Len(speaker_turns)))
    /\ zpc = "returned" =>
          /\ Len(speaker_turns) = Len(diarization)
          /\ {speaker_turns[i].speaker : i \in 1..Len(speaker_turns)}
                = {SpeakerName(n) : n \in 1..Cardinality(LabelsUpTo(Len(diarization)))}
          /\ \A i, j \in 1..Len(speaker_turns) :
                (speaker_turns[i].speaker = speaker_turns[j].speaker)
                    <=> (diarization[i].speaker = diarization[j].speaker)

\* SPEAKER_01 speaks first, then SPEAKER_00, then SPEAKER_01 again: the
\* result is Speaker 1, Speaker 2, Speaker 1
C19_Witness ==
    /\ zpc = "returned"
    /\ Len(diarization) = 3
    /\ diarization[1].speaker = "SPEAKER_01"
    /\ diarization[2].speaker = "SPEAKER_00"
    /\ diarization[3].speaker = "SPEAKER_01"
    /\ speaker_turns[1].speaker = "Speaker 1"
    /\ speaker_turns[2].speaker = "Speaker 2"
    /\ speaker_turns[3].speaker = "Speaker 1"

(***************************************************************************)
(* transcriber.py: format_time                                             *)
(***************************************************************************)
\* a number of seconds is held in tenths of a second: 457 is 45.7, an hour
\* is 36000 and a minute 600

\* f"{n:02d}": at least two digits, zeros in front
Format02d(n) == IF n < 10 THEN "0" \o ToString(n) ELSE ToString(n)

\* a formatting that rounds the seconds to the nearest whole second
FormatTimeRounded(seconds) ==
    LET hours == seconds \div 36000
        minutes == (seconds % 36000) \div 600
        secs == ((seconds % 600) + 5) \div 10
    IN  Format02d(hours) \o ":" \o Format02d(minutes) \o ":" \o Format02d(secs)

\* format_time: hours = int(seconds // 3600), minutes = int((seconds % 3600)
\* // 60), secs = int(seconds % 60)
FormatTime(seconds) ==
    LET hours == seconds \div 36000
        minutes == (seconds % 36000) \div 600
        secs == (seconds % 600) \div 10
    IN  Format02d(hours) \o ":" \o Format02d(minutes) \o ":" \o Format02d(secs)

\* the arguments: whole hours, minutes and seconds and a fraction
FormatInputs ==
    { ((h * 3600 + mi * 60 + sec) * 10) + f :
        h \in {0, 1, 10, 99, 100}, mi \in {0, 1, 2, 59}, sec \in {0, 1, 5, 45, 59},
        f \in {0, 5, 7, 9} }

FormatStart ==
    /\ ft_seconds \in FormatInputs
    /\ ft_out = ""
    /\ ft_pc = "start"

\* format_time is not called
FormatUnused ==
    /\ ft_seconds = 0
    /\ ft_out = ""
    /\ ft_pc = "unused"

\* ft_out = format_time(ft_seconds)
CallFormatTime ==
    /\ ft_pc = "start"
    /\ ft_out' = FormatTime(ft_seconds)
    /\ ft_pc' = "returned"
    /\ UNCHANGED ft_seconds
    /\ UNCHANGED <<cleanVars, assignVars, diarizeVars, transcribeVars, pipelineVars,
                   configVars, diarizerVars,
                   outputVars,
                   tempVars,
                   resolveVars,
                   backendVars,
                   recordVars>>

FormatNext == CallFormatTime

(***************************************************************************)
(* Properties of format_time                                               *)
(***************************************************************************)
\* the decimal digits
Digits == <<"0", "1", "2", "3", "4", "5", "6", "7", "8", "9">>

\* a number below 100 written with two digits
TwoDigits(n) == Digits[(n \div 10) + 1] \o Digits[(n % 10) + 1]

\* a number written with two digits, or with three when it needs them
Padded(n) == IF n < 100 THEN TwoDigits(n) ELSE Digits[(n \div 100) + 1] \o TwoDigits(n % 100)

\* floor(s)
WholeSeconds == ft_seconds \div 10

\* C21: for a non-negative number of seconds s, format_time(s) is the
\* zero-padded string HH:MM:SS with HH = floor(s) div 3600, MM = (floor(s)
\* mod 3600) div 60 and SS = floor(s) mod 60; the fraction is cut off and
\* never rounded up.
C21_FormatTimeTruncates ==
    ft_pc = "returned" =>
        ft_out = Padded(WholeSeconds \div 3600) \o ":"
                 \o TwoDigits((WholeSeconds % 3600) \div 60) \o ":"
                 \o TwoDigits(WholeSeconds % 60)

\* format_time(45.7) = "00:00:45"
C21_Witness ==
    /\ ft_pc = "returned"
    /\ ft_seconds = 457
    /\ ft_out = "00:00:45"

(***************************************************************************)
(* transcribe_video.py: step 5, format and output                          *)
(***************************************************************************)
\* the texts and the speakers of the merged segments
OutputTexts == {"hello", "bye"}
OutputSpeakers == {"Speaker 1", "Speaker 2", "Unknown"}

\* the lists step 3 hands on: segments_without_speakers gives DiarizedSegment
\* objects that all carry "Speaker", assign_speakers_to_transcript gives
\* tuples with the speakers of the diarization; step 4 keeps the elements
MergedLists(type) ==
    LET speakers == IF type = DiarizedSegmentType THEN {"Speaker"} ELSE OutputSpeakers
    IN  UNION { [1..n -> [speaker : speakers, text : OutputTexts]] : n \in 0..MaxSegs }

\* no file was written
NoFile == [written |-> FALSE, lines |-> <<>>]

\* output_path.write_text("\n".join(file_lines)): the lines of the file
WriteText(lines) == [written |-> TRUE, lines |-> lines]

\* line 196: if prev_speaker and prev_speaker != seg.speaker
BlankLineBefore(prev, speaker) == Truthy(prev) /\ prev # speaker

OutputStart ==
    /\ out_type \in {DiarizedSegmentType, TupleType}
    /\ out_merged \in MergedLists(out_type)
    /\ file_lines = <<>>
    /\ prev_speaker = None
    /\ saved = NoFile
    /\ opc = "loop"

\* step 5 is not run
OutputUnused ==
    /\ out_type = NoType
    /\ out_merged = <<>>
    /\ file_lines = <<>>
    /\ prev_speaker = None
    /\ saved = NoFile
    /\ opc = "unused"

\* the segments the loop has been through
Visited == Len(SelectSeq(file_lines, LAMBDA l : l # ""))

\* lines 188-199: one iteration of the loop over merged; seg.start is read
\* first, and an object without that attribute raises AttributeError
OutputSegment ==
    /\ opc = "loop"
    /\ Visited < Len(out_merged)
    /\ LET seg == out_merged[Visited + 1]
       IN  IF "start" \notin Attributes(out_type)
           THEN /\ opc' = "raised AttributeError"
                /\ UNCHANGED <<file_lines, prev_speaker>>
           ELSE /\ file_lines' =
                      (IF BlankLineBefore(prev_speaker, seg.speaker)
                       THEN Append(file_lines, "") ELSE file_lines)
                      \o <<seg.speaker \o ": " \o seg.text>>
                /\ prev_speaker' = seg.speaker
                /\ opc' = opc
    /\ UNCHANGED <<out_merged, out_type, saved>>
    /\ UNCHANGED <<cleanVars, assignVars, diarizeVars, transcribeVars, pipelineVars,
                   configVars, diarizerVars, formatVars,
                   tempVars,
                   resolveVars,
                   backendVars,
                   recordVars>>

\* lines 201-209: the file is written
OutputSave ==
    /\ opc = "loop"
    /\ Visited = Len(out_merged)
    /\ saved' = WriteText(file_lines)
    /\ opc' = "saved"
    /\ UNCHANGED <<out_merged, out_type, file_lines, prev_speaker>>
    /\ UNCHANGED <<cleanVars, assignVars, diarizeVars, transcribeVars, pipelineVars,
                   configVars, diarizerVars, formatVars,
                   tempVars,
                   resolveVars,
                   backendVars,
                   recordVars>>

OutputNext == OutputSegment \/ OutputSave

(***************************************************************************)
(* Properties of the saved transcript                                      *)
(***************************************************************************)
\* the transcript of segments 1..n: a line for each, a blank line before a
\* segment whose speaker is not the one of the segment before it
RECURSIVE Grouped(_, _)
Grouped(segs, n) ==
    IF n = 0 THEN <<>>
    ELSE Grouped(segs, n - 1)
         \o (IF n > 1 /\ segs[n - 1].speaker # segs[n].speaker THEN <<"">> ELSE <<>>)
         \o <<segs[n].speaker \o ": " \o segs[n].text>>

\* C22: the saved transcript has one line for each output segment, in the
\* order of the segments, a blank line between the lines of two consecutive
\* segments exactly when their speakers differ, and no blank line before
\* the first or after the last.
C22_TranscriptGroupedBySpeaker ==
    opc # "loop" => (opc = "unused" \/ saved = WriteText(Grouped(out_merged, Len(out_merged))))

(***************************************************************************)
(* transcriber.py: two GpuTranscriber.transcribe gcalls at the same time    *)
(***************************************************************************)
\* the two gcalls, in two processes
Callers == {1, 2}

\* the source files: two share the stem "talk"
SourceFiles ==
    { [stem |-> "talk", suffix |-> ".mp4"], [stem |-> "talk", suffix |-> ".mkv"],
      [stem |-> "demo", suffix |-> ".mp4"], [stem |-> "demo", suffix |-> ".wav"] }

\* _convert_to_wav, line 151: Path(tempfile.gettempdir()) /
\* f"{audio_path.stem}_whisper.wav"
WavPath(source) == source.stem \o "_whisper.wav"

\* the temporary paths there are
WavPaths == {WavPath(f) : f \in SourceFiles}

\* no file at a path; a file is known by the call that wrote it
NoWriter == 0

\* a call before it starts
NewCall(source) == [source |-> source, pc |-> "convert", temp_wav_created |-> FALSE]

\* the call is between the creation of its temporary file and its finally
\* clause
HoldsTempFile(call) == call.temp_wav_created /\ call.pc \in {"whisper", "finally"}

\* the other call holds a temporary file at the same path
OtherHolds(c, path) ==
    \E o \in Callers \ {c} :
        HoldsTempFile(gcalls[o]) /\ WavPath(gcalls[o].source) = path

TempStart ==
    /\ gcalls \in [Callers -> {NewCall(f) : f \in SourceFiles}]
    /\ tmpdir = [path \in WavPaths |-> NoWriter]
    /\ foreign = {}

\* no call is made
TempUnused ==
    /\ gcalls = [c \in Callers |-> [source |-> [stem |-> "demo", suffix |-> ".wav"],
                                   pc |-> "unused", temp_wav_created |-> FALSE]]
    /\ tmpdir = [path \in WavPaths |-> NoWriter]
    /\ foreign = {}

\* lines 210-211 and _convert_to_wav: a WAV source is used as it is; else
\* ffmpeg -y writes the temporary file, over whatever is at that path
ConvertToWav(c) ==
    /\ gcalls[c].pc = "convert"
    /\ LET path == WavPath(gcalls[c].source)
       IN  IF gcalls[c].source.suffix = ".wav"
           THEN /\ gcalls' = [gcalls EXCEPT ![c].pc = "whisper"]
                /\ UNCHANGED <<tmpdir, foreign>>
           ELSE /\ gcalls' = [gcalls EXCEPT ![c].pc = "whisper",
                                          ![c].temp_wav_created = TRUE]
                /\ tmpdir' = [tmpdir EXCEPT ![path] = c]
                /\ foreign' = IF OtherHolds(c, path)
                              THEN foreign \cup {[by |-> c, does |-> "overwrite"]}
                              ELSE foreign
    /\ UNCHANGED <<cleanVars, assignVars, diarizeVars, transcribeVars, pipelineVars,
                   configVars, diarizerVars, formatVars, outputVars,
                   resolveVars,
                   backendVars,
                   recordVars>>

\* lines 229-257: whisper-cli reads the file at wav_path
RunWhisper(c) ==
    /\ gcalls[c].pc = "whisper"
    /\ gcalls' = [gcalls EXCEPT ![c].pc = "finally"]
    /\ LET path == WavPath(gcalls[c].source)
       IN  foreign' = IF gcalls[c].temp_wav_created /\ tmpdir[path] \notin {NoWriter, c}
                      THEN foreign \cup {[by |-> c, does |-> "read"]}
                      ELSE foreign
    /\ UNCHANGED tmpdir
    /\ UNCHANGED <<cleanVars, assignVars, diarizeVars, transcribeVars, pipelineVars,
                   configVars, diarizerVars, formatVars, outputVars,
                   resolveVars,
                   backendVars,
                   recordVars>>

\* lines 266-269: if temp_wav_created and wav_path.exists(): wav_path.unlink()
Finally(c) ==
    /\ gcalls[c].pc = "finally"
    /\ gcalls' = [gcalls EXCEPT ![c].pc = "ended"]
    /\ LET path == WavPath(gcalls[c].source)
       IN  IF gcalls[c].temp_wav_created /\ tmpdir[path] # NoWriter
           THEN /\ tmpdir' = [tmpdir EXCEPT ![path] = NoWriter]
                /\ foreign' = IF OtherHolds(c, path)
                              THEN foreign \cup {[by |-> c, does |-> "delete"]}
                              ELSE foreign
           ELSE UNCHANGED <<tmpdir, foreign>>
    /\ UNCHANGED <<cleanVars, assignVars, diarizeVars, transcribeVars, pipelineVars,
                   configVars, diarizerVars, formatVars, outputVars,
                   resolveVars,
                   backendVars,
                   recordVars>>

TempNext == \E c \in Callers : ConvertToWav(c) \/ RunWhisper(c) \/ Finally(c)

(***************************************************************************)
(* Properties of the temporary file                                        *)
(***************************************************************************)
\* C24: the temporary converted-audio file belongs to one transcribe call for
\* the whole of the call: when two gcalls overlap, on two sources that share a
\* stem or on the same source, neither overwrites, reads or deletes the
\* temporary file of the other.
C24_TempFileExclusivelyOwned == foreign = {}

(***************************************************************************)
(* transcriber.py: _resolve_path                                           *)
(***************************************************************************)
\* _DEFAULT_WHISPER_EXE, _DEFAULT_WHISPER_MODELS
DefaultWhisperExe == "C:\\whisper.cpp\\bin\\whisper-cli.exe"
DefaultWhisperModels == "C:\\whisper.cpp\\models"

\* _resolve_path: the configured value if it is truthy, else the value of
\* the environment variable if it is truthy, else the default
ResolvePath(config_value, env_value, default) ==
    IF Truthy(config_value) THEN config_value
    ELSE IF Truthy(env_value) THEN env_value
    ELSE default

\* the values a configuration or the environment may hold for what is looked for
ConfiguredValues(what) == {None, "", "D:\\tools\\" \o what}
EnvironmentValues(what) == {None, "", "E:\\opt\\" \o what}

ResolveStart ==
    /\ rconfig \in [exe : ConfiguredValues("whisper-cli.exe"), models : ConfiguredValues("models")]
    /\ renv \in [exe : EnvironmentValues("whisper-cli.exe"), models : {None, "E:\\opt\\models"}]
    /\ on_disk \in SUBSET {"D:\\tools\\whisper-cli.exe", "E:\\opt\\whisper-cli.exe",
                           DefaultWhisperExe, "E:\\opt\\models"}
    /\ resolved = None
    /\ rpc = "start"

\* nothing is resolved
ResolveUnused ==
    /\ rconfig = [exe |-> None, models |-> None]
    /\ renv = [exe |-> None, models |-> None]
    /\ on_disk = {}
    /\ resolved = None
    /\ rpc = "unused"

\* is_gpu_available, line 111, and GpuTranscriber.__init__, line 131
ResolveWhisperExe ==
    /\ rpc = "start"
    /\ resolved' = ResolvePath(rconfig.exe, renv.exe, DefaultWhisperExe)
    /\ rpc' = "exe resolved"
    /\ UNCHANGED <<rconfig, renv, on_disk>>
    /\ UNCHANGED <<cleanVars, assignVars, diarizeVars, transcribeVars, pipelineVars,
                   configVars, diarizerVars, formatVars, outputVars, tempVars,
                   backendVars,
                   recordVars>>

\* GpuTranscriber.__init__, line 132
ResolveModelsDir ==
    /\ rpc = "start"
    /\ resolved' = ResolvePath(rconfig.models, renv.models, DefaultWhisperModels)
    /\ rpc' = "models resolved"
    /\ UNCHANGED <<rconfig, renv, on_disk>>
    /\ UNCHANGED <<cleanVars, assignVars, diarizeVars, transcribeVars, pipelineVars,
                   configVars, diarizerVars, formatVars, outputVars, tempVars,
                   backendVars,
                   recordVars>>

ResolveNext == ResolveWhisperExe \/ ResolveModelsDir

(***************************************************************************)
(* Properties of the path resolution                                       *)
(***************************************************************************)
\* the candidates in their order: configuration, environment, default
Candidates ==
    IF rpc = "exe resolved" THEN <<rconfig.exe, renv.exe, DefaultWhisperExe>>
    ELSE <<rconfig.models, renv.models, DefaultWhisperModels>>

\* C26: the whisper executable and the models directory are each resolved to
\* the first candidate that exists on disk, in the order configured value,
\* environment variable, default; a configured or environment value that
\* does not exist is passed over for a later candidate that exists.
C26_FirstExistingCandidate ==
    rpc \in {"exe resolved", "models resolved"} =>
        \A i \in 1..3 :
            (/\ Candidates[i] \in on_disk
             /\ \A j \in 1..(i - 1) : Candidates[j] \notin on_disk)
                => resolved = Candidates[i]

(***************************************************************************)
(* transcriber.py: Transcriber, the CPU backend, and its model             *)
(***************************************************************************)
\* the backend objects a program may construct
Instances == {"t1", "t2"}

\* self._model = None; a loaded model is known by the number of its load
NoModel == 0

\* an object not yet constructed, and Transcriber.__init__
NotConstructed == [made |-> FALSE, model |-> NoModel]
NewTranscriber == [made |-> TRUE, model |-> NoModel]

\* what happened: a construction, a load of a model, a decoding with a model
Event(type, instance, model) == [type |-> type, instance |-> instance, model |-> model]

\* a _load_model that loads on every call
LoadModelEveryTime(model, fresh) == fresh

\* _load_model, lines 299-311: the model the instance holds afterwards, fresh
\* being the model WhisperModel(...) makes
LoadModel(model, fresh) == IF model = NoModel THEN fresh ELSE model

BackendStart ==
    /\ backends = [i \in Instances |-> NotConstructed]
    /\ history = <<>>
    /\ ncalls = 0

\* no CPU backend is made
BackendUnused ==
    /\ backends = [i \in Instances |-> NotConstructed]
    /\ history = <<>>
    /\ ncalls = -1

\* Transcriber(model_size)
ConstructTranscriber(i) ==
    /\ ncalls >= 0
    /\ ~backends[i].made
    /\ backends' = [backends EXCEPT ![i] = NewTranscriber]
    /\ history' = Append(history, Event("construct", i, NoModel))
    /\ UNCHANGED ncalls
    /\ UNCHANGED <<cleanVars, assignVars, diarizeVars, transcribeVars, pipelineVars,
                   configVars, diarizerVars, formatVars, outputVars, tempVars,
                   resolveVars,
                   recordVars>>

\* list(transcriber.transcribe(path)), lines 325-351: the path is validated,
\* then _load_model, then the model decodes; WhisperModel(...) may raise, and
\* then _model stays None
TranscribeOnCpu(i) ==
    /\ backends[i].made
    /\ ncalls >= 0 /\ ncalls < MaxCalls
    /\ ncalls' = ncalls + 1
    /\ \E path_valid \in BOOLEAN, load_ok \in BOOLEAN :
          LET fresh == Len(SelectSeq(history, LAMBDA e : e.type = "load")) + 1
              model == LoadModel(backends[i].model, fresh)
          IN  IF ~path_valid
              THEN UNCHANGED <<backends, history>>
              ELSE IF model # backends[i].model /\ ~load_ok
              THEN UNCHANGED <<backends, history>>
              ELSE /\ backends' = [backends EXCEPT ![i].model = model]
                   /\ history' = history
                         \o (IF model # backends[i].model
                             THEN <<Event("load", i, model)>> ELSE <<>>)
                         \o <<Event("decode", i, model)>>
    /\ UNCHANGED <<cleanVars, assignVars, diarizeVars, transcribeVars, pipelineVars,
                   configVars, diarizerVars, formatVars, outputVars, tempVars,
                   resolveVars,
                   recordVars>>

BackendNext == \E i \in Instances : ConstructTranscriber(i) \/ TranscribeOnCpu(i)

(***************************************************************************)
(* Properties of the CPU backend's model                                   *)
(***************************************************************************)
\* the positions of the events of a type of an instance
EventsOf(type, i) ==
    {k \in 1..Len(history) : history[k].type = type /\ history[k].instance = i}

\* C27: the CPU backend loads its model lazily and at most once for each
\* instance: the construction loads nothing, the first transcription that
\* gets to run loads the model, every later one on the same instance uses
\* that model and loads nothing, and two instances never share a model.
C27_ModelLoadedOncePerInstance ==
    \A i \in Instances :
        /\ Cardinality(EventsOf("load", i)) <= 1
        /\ EventsOf("load", i) = {} <=> backends[i].model = NoModel
        /\ \A k \in EventsOf("load", i) :
              /\ k > 1 /\ k < Len(history)
              /\ history[k + 1] = Event("decode", i, history[k].model)
              /\ \A d \in EventsOf("decode", i) : d > k
              /\ \E c \in EventsOf("construct", i) : c < k
        /\ \A d \in EventsOf("decode", i) :
              /\ history[d].model = backends[i].model
              /\ history[d].model # NoModel
        /\ \A j \in Instances \ {i} :
              backends[i].model # NoModel => backends[i].model # backends[j].model

\* t1 has transcribed twice and t2 once: two loads, three decodings
C27_Witness ==
    /\ Cardinality(EventsOf("decode", "t1")) = 2
    /\ Cardinality(EventsOf("decode", "t2")) = 1
    /\ Cardinality(EventsOf("load", "t1")) = 1
    /\ Cardinality(EventsOf("load", "t2")) = 1

(***************************************************************************)
(* auto_record.py: the polling loop of main                                *)
(***************************************************************************)
\* what a poll did: whether a meeting window was found, what is_recording
\* answered if it was asked, how start_recording and stop_recording ended if
\* they were called
Poll(in_meeting, is_recording, start, stop) ==
    [in_meeting |-> in_meeting, is_recording |-> is_recording, start |-> start,
     stop |-> stop]

\* a test of the level: a meeting window is there
MeetingStartedLevel(in_meeting, was) == in_meeting

\* line 244: if in_meeting and not was_in_meeting
MeetingStarted(in_meeting, was) == in_meeting /\ ~was

\* line 257: elif not in_meeting and was_in_meeting
MeetingEnded(in_meeting, was) == ~in_meeting /\ was

RecordStart ==
    /\ was_in_meeting = FALSE
    /\ polls = <<>>
    /\ mpc = "polling"

\* auto_record is not running
RecordUnused ==
    /\ was_in_meeting = FALSE
    /\ polls = <<>>
    /\ mpc = "unused"

\* lines 240-274: one turn of the loop.  OBSController.is_recording answers
\* what OBS reports, or False when the request fails; start_recording and
\* stop_recording send the request and say whether it went through
PollOnce ==
    /\ mpc = "polling"
    /\ Len(polls) < MaxPolls
    /\ \E in_meeting \in BOOLEAN, is_recording \in BOOLEAN, sent \in {"ok", "failed"} :
          /\ polls' = Append(polls,
                IF MeetingStarted(in_meeting, was_in_meeting)
                THEN IF ~is_recording
                     THEN Poll(in_meeting, "False", sent, "not sent")
                     ELSE Poll(in_meeting, "True", "not sent", "not sent")
                ELSE IF MeetingEnded(in_meeting, was_in_meeting)
                THEN IF is_recording
                     THEN Poll(in_meeting, "True", "not sent", sent)
                     ELSE Poll(in_meeting, "False", "not sent", "not sent")
                ELSE Poll(in_meeting, "not asked", "not sent", "not sent"))
          /\ was_in_meeting' = in_meeting
    /\ UNCHANGED mpc
    /\ UNCHANGED <<cleanVars, assignVars, diarizeVars, transcribeVars, pipelineVars,
                   configVars, diarizerVars, formatVars, outputVars, tempVars,
                   resolveVars, backendVars>>

\* lines 276-286: Ctrl+C ends the loop
Interrupt ==
    /\ mpc = "polling"
    /\ mpc' = "stopped"
    /\ UNCHANGED <<was_in_meeting, polls>>
    /\ UNCHANGED <<cleanVars, assignVars, diarizeVars, transcribeVars, pipelineVars,
                   configVars, diarizerVars, formatVars, outputVars, tempVars,
                   resolveVars, backendVars>>

RecordNext == PollOnce \/ Interrupt

(***************************************************************************)
(* Properties of the polling loop                                          *)
(***************************************************************************)
\* a start request was sent on poll k
StartSent(k) == polls[k].start # "not sent"

\* C30: a start-recording request is sent only on a poll that finds a
\* meeting window when the poll before found none, and only if is_recording
\* answered that OBS is not recording; at most one start request is sent in
\* one uninterrupted meeting, and it is not sent again on a later poll of the
\* same meeting even when it failed.
C30_StartOnlyOnMeetingStart ==
    /\ \A k \in 1..Len(polls) :
          StartSent(k)
              => /\ polls[k].in_meeting
                 /\ k > 1 => ~polls[k - 1].in_meeting
                 /\ polls[k].is_recording = "False"
    /\ \A k, l \in 1..Len(polls) :
          (k < l /\ StartSent(k) /\ StartSent(l))
              => \E n \in (k + 1)..(l - 1) : ~polls[n].in_meeting
    /\ \A k \in 1..(Len(polls) - 1) :
          (polls[k].start = "failed" /\ polls[k + 1].in_meeting) => ~StartSent(k + 1)

\* the start request failed on the first poll of a meeting; the next two
\* polls still see the meeting and send nothing
C30_Witness ==
    /\ Len(polls) = 3
    /\ polls[1].start = "failed"
    /\ polls[2].in_meeting /\ polls[3].in_meeting
    /\ ~StartSent(2) /\ ~StartSent(3)

(***************************************************************************)
(* Specifications: one per component, the other components unused          *)
(***************************************************************************)
CleanInit == CleanStart /\ AssignUnused /\ DiarizeUnused /\ TranscribeUnused /\ PipelineUnused
    /\ ConfigUnused
    /\ DiarizerUnused
    /\ FormatUnused
    /\ OutputUnused
    /\ TempUnused
    /\ ResolveUnused
    /\ BackendUnused
    /\ RecordUnused
SpecClean == CleanInit /\ [][CleanNext]_vars

DuplicatesInit ==
    DuplicatesStart /\ AssignUnused /\ DiarizeUnused /\ TranscribeUnused /\ PipelineUnused
    /\ ConfigUnused
    /\ DiarizerUnused
    /\ FormatUnused
    /\ OutputUnused
    /\ TempUnused
    /\ ResolveUnused
    /\ BackendUnused
    /\ RecordUnused
SpecDuplicates == DuplicatesInit /\ [][DuplicatesNext]_vars

LengthInit ==
    LengthStart /\ AssignUnused /\ DiarizeUnused /\ TranscribeUnused /\ PipelineUnused
    /\ ConfigUnused
    /\ DiarizerUnused
    /\ FormatUnused
    /\ OutputUnused
    /\ TempUnused
    /\ ResolveUnused
    /\ BackendUnused
    /\ RecordUnused
SpecLength == LengthInit /\ [][LengthNext]_vars

FillersInit ==
    FillersStart /\ AssignUnused /\ DiarizeUnused /\ TranscribeUnused /\ PipelineUnused
    /\ ConfigUnused
    /\ DiarizerUnused
    /\ FormatUnused
    /\ OutputUnused
    /\ TempUnused
    /\ ResolveUnused
    /\ BackendUnused
    /\ RecordUnused
SpecFillers == FillersInit /\ [][FillersNext]_vars

CleanTextInit ==
    CleanTextStart /\ AssignUnused /\ DiarizeUnused /\ TranscribeUnused /\ PipelineUnused
    /\ ConfigUnused
    /\ DiarizerUnused
    /\ FormatUnused
    /\ OutputUnused
    /\ TempUnused
    /\ ResolveUnused
    /\ BackendUnused
    /\ RecordUnused
SpecCleanText == CleanTextInit /\ [][CleanTextNext]_vars

AssignInit == AssignStart /\ CleanUnused /\ DiarizeUnused /\ TranscribeUnused /\ PipelineUnused
    /\ ConfigUnused
    /\ DiarizerUnused
    /\ FormatUnused
    /\ OutputUnused
    /\ TempUnused
    /\ ResolveUnused
    /\ BackendUnused
    /\ RecordUnused
SpecAssign == AssignInit /\ [][AssignNext]_vars

DiarizeInit == DiarizeStart /\ CleanUnused /\ AssignUnused /\ TranscribeUnused /\ PipelineUnused
    /\ ConfigUnused
    /\ DiarizerUnused
    /\ FormatUnused
    /\ OutputUnused
    /\ TempUnused
    /\ ResolveUnused
    /\ BackendUnused
    /\ RecordUnused
SpecDiarize == DiarizeInit /\ [][DiarizeNext]_vars

TranscribeInit == TranscribeStart /\ CleanUnused /\ AssignUnused /\ DiarizeUnused /\ PipelineUnused
    /\ ConfigUnused
    /\ DiarizerUnused
    /\ FormatUnused
    /\ OutputUnused
    /\ TempUnused
    /\ ResolveUnused
    /\ BackendUnused
    /\ RecordUnused
SpecTranscribe == TranscribeInit /\ [][TranscribeNext]_vars

PipelineInit ==
    PipelineStart /\ CleanUnused /\ AssignUnused /\ DiarizeUnused /\ TranscribeUnused
    /\ ConfigUnused
    /\ DiarizerUnused
    /\ FormatUnused
    /\ OutputUnused
    /\ TempUnused
    /\ ResolveUnused
    /\ BackendUnused
    /\ RecordUnused
SpecPipeline == PipelineInit /\ [][PipelineNext]_vars

ConfigInit ==
    ConfigStart /\ CleanUnused /\ AssignUnused /\ DiarizeUnused /\ TranscribeUnused
    /\ PipelineUnused /\ DiarizerUnused
    /\ FormatUnused
    /\ OutputUnused
    /\ TempUnused
    /\ ResolveUnused
    /\ BackendUnused
    /\ RecordUnused
SpecConfig == ConfigInit /\ [][ConfigNext]_vars

DiarizerDiarizeInit ==
    DiarizerStart /\ CleanUnused /\ AssignUnused /\ DiarizeUnused /\ TranscribeUnused
    /\ PipelineUnused /\ ConfigUnused
    /\ FormatUnused
    /\ OutputUnused
    /\ TempUnused
    /\ ResolveUnused
    /\ BackendUnused
    /\ RecordUnused
SpecDiarizer == DiarizerDiarizeInit /\ [][DiarizerNext]_vars

FormatInit ==
    FormatStart /\ CleanUnused /\ AssignUnused /\ DiarizeUnused /\ TranscribeUnused
    /\ PipelineUnused /\ ConfigUnused /\ DiarizerUnused
    /\ OutputUnused
    /\ TempUnused
    /\ ResolveUnused
    /\ BackendUnused
    /\ RecordUnused
SpecFormat == FormatInit /\ [][FormatNext]_vars

OutputInit ==
    OutputStart /\ CleanUnused /\ AssignUnused /\ DiarizeUnused /\ TranscribeUnused
    /\ PipelineUnused /\ ConfigUnused /\ DiarizerUnused /\ FormatUnused
    /\ TempUnused
    /\ ResolveUnused
    /\ BackendUnused
    /\ RecordUnused
SpecOutput == OutputInit /\ [][OutputNext]_vars

TempInit ==
    TempStart /\ CleanUnused /\ AssignUnused /\ DiarizeUnused /\ TranscribeUnused
    /\ PipelineUnused /\ ConfigUnused /\ DiarizerUnused /\ FormatUnused /\ OutputUnused
    /\ ResolveUnused
    /\ BackendUnused
    /\ RecordUnused
SpecTemp == TempInit /\ [][TempNext]_vars

ResolveInit ==
    ResolveStart /\ CleanUnused /\ AssignUnused /\ DiarizeUnused /\ TranscribeUnused
    /\ PipelineUnused /\ ConfigUnused /\ DiarizerUnused /\ FormatUnused /\ OutputUnused
    /\ TempUnused
    /\ BackendUnused
    /\ RecordUnused
SpecResolve == ResolveInit /\ [][ResolveNext]_vars

BackendInit ==
    BackendStart /\ CleanUnused /\ AssignUnused /\ DiarizeUnused /\ TranscribeUnused
    /\ PipelineUnused /\ ConfigUnused /\ DiarizerUnused /\ FormatUnused /\ OutputUnused
    /\ TempUnused /\ ResolveUnused
    /\ RecordUnused
SpecBackend == BackendInit /\ [][BackendNext]_vars

RecordInit ==
    RecordStart /\ CleanUnused /\ AssignUnused /\ DiarizeUnused /\ TranscribeUnused
    /\ PipelineUnused /\ ConfigUnused /\ DiarizerUnused /\ FormatUnused /\ OutputUnused
    /\ TempUnused /\ ResolveUnused /\ BackendUnused
SpecRecord == RecordInit /\ [][RecordNext]_vars

====
